---- MODULE Spec2Model ----
(***************************************************************************)
(* A model of the RAG engine of Xerpend/Melanie (src/RAG/src):             *)
(*   - the session token budget of the binding layer (python_bindings.rs), *)
(*   - the engine's ingest / retrieve / delete / clear (engine.rs),        *)
(*   - the vector store, durable layer and shadow index (vector_store.rs), *)
(*   - the similarity search (vector_store.rs),                            *)
(*   - the TTL + LRU cache (cache.rs).                                     *)
(* Each part has its own specification over the shared variables:          *)
(*   Spec        the binding layer and the engine, two concurrent callers  *)
(*   FairSpec    Spec with the runtime's scheduling of spawned tasks       *)
(*   SpecStore   the vector store's operations, both backends              *)
(*   SpecSearch  parallel_similarity_search and the batched search         *)
(*   SpecCache   the three cache layers with a clock                       *)
(***************************************************************************)
EXTENDS Integers, Sequences, FiniteSets, TLC

None == "None"

(***************************************************************************)
(* Bounds of the model.                                                    *)
(***************************************************************************)
\* calls made to one PyRagEngine along one behaviour
MaxCalls == 3
\* chunks (or ids) passed to one store_chunks (or delete_chunks)
MaxBatch == 2
\* top_k of a search ranges over 0..MaxK
MaxK == 3
\* query vectors of one batch_search_similar
MaxQueries == 2
\* calls made to one RagCache along one behaviour
MaxCacheOps == 3
\* the clock runs from 0 to MaxTime seconds
MaxTime == 2
\* retrieve_context calls started along one behaviour
MaxRetrievals == 2
\* the configured max_retries runs from 0 to MaxRetries
MaxRetries == 2

(***************************************************************************)
(* Program constants.                                                      *)
(***************************************************************************)
\* python_bindings.rs:26  token_limit = 500000
TokenLimit == 500000
\* python_bindings.rs:155 / 156  the expected return per mode
GeneralEnvelope == 5000
ResearchEnvelope == 20000
\* types.rs:30 / 31  RetrievalMode::max_chunks
MaxChunksGeneral == 20
MaxChunksResearch == 100

VARIABLES
    \* ---- PyRagEngine
    token_count,   \* PyRagEngine.token_count
    task,          \* the calls in progress, one per caller
    rollbacks,     \* the compensation tasks spawned by failed ingests
    calls,         \* number of calls started
    \* ---- RagEngine
    documents,     \* RagEngine.documents : DocumentId -> Document
    stats,         \* RagEngine.stats
    \* ---- vector store
    backend,       \* "sled" | "faiss"
    db,            \* durable layer: ChunkId -> Chunk
    index,         \* shadow index (VectorIndex.embeddings): ChunkId -> Embedding
    iter_order,    \* the iteration order of the shadow's HashMap
    store_ret,     \* the last store operation and its outcome
    \* ---- similarity search
    search,        \* the search call in progress or returned
    \* ---- cache
    cache,         \* layer -> entries, most recently used first
    cache_stats,   \* CacheStats
    cache_cfg,     \* CacheConfig
    now,           \* the clock (seconds)
    cache_ret,     \* the last cache operation and what it returned
    cache_hist,    \* per layer and key: the last put and the uses since
    \* ---- RagEngine::retrieve_context and the remote clients
    retr,          \* the retrieve_context calls in progress, one per caller
    retry,         \* the slice a remote client is sending, attempt by attempt
    ingest,        \* the store_chunks call in progress and the batches stored
    \* ---- functions of the chunker and of the reranker, called on their own
    fcall          \* the call: its arguments and, once returned, its result

engineVars == <<token_count, task, rollbacks, calls, documents, stats>>
storeVars == <<backend, db, index, iter_order, store_ret>>
searchVars == <<search>>
clientVars == <<retr, retry, ingest, fcall>>
cacheVars == <<cache, cache_stats, cache_cfg, now, cache_ret, cache_hist>>
vars == <<engineVars, storeVars, searchVars, clientVars, cacheVars>>

(***************************************************************************)
(* Helpers on finite maps (HashMap) and sequences.                         *)
(***************************************************************************)
EmptyMap == [x \in {} |-> None]

MapInsert(m, k, v) == [x \in (DOMAIN m) \cup {k} |-> IF x = k THEN v ELSE m[x]]

MapRemove(m, k) == [x \in (DOMAIN m) \ {k} |-> m[x]]

MapRemoveAll(m, ks) == [x \in (DOMAIN m) \ ks |-> m[x]]

Range(s) == {s[i] : i \in DOMAIN s}

RECURSIVE SumSeq(_)
SumSeq(s) == IF s = <<>> THEN 0 ELSE Head(s) + SumSeq(Tail(s))

RECURSIVE SumSet(_, _)
\* sum of f[x] over the finite set S
SumSet(f, S) ==
    IF S = {} THEN 0
    ELSE LET x == CHOOSE y \in S : TRUE IN f[x] + SumSet(f, S \ {x})

SaturatingSub_Keep(a, b) == a

\* usize::saturating_sub
SaturatingSub(a, b) == IF a >= b THEN a - b ELSE 0

(***************************************************************************)
(* The vector store, as operators on the two layers.  Both backends keep   *)
(* a chunk map (sled's tree keyed by the id string, or                     *)
(* FaissVectorStore.chunks) and the shadow VectorIndex.embeddings;         *)
(* VectorIndex.metadata is inserted and removed together with embeddings   *)
(* and is not kept apart.  A chunk is a record                             *)
(*   [id, document_id, len, embedding]                                     *)
(* with len the byte length of its content and embedding an Option: the    *)
(* empty sequence for None, the one-element sequence <<v>> for Some(v).    *)
(***************************************************************************)
NoEmbedding == <<>>

Some(v) == <<v>>
\* config.rs:52  VectorStoreConfig.dimension (a small configured dimension)
Dimension == 2

\* store_chunk, once the durable write has succeeded
StoreChunkDb(d, chunk) == MapInsert(d, chunk.id, chunk)

\* "Update in-memory index if chunk has embedding"
IndexAfterStore(ix, chunk) ==
    IF chunk.embedding # NoEmbedding
        THEN MapInsert(ix, chunk.id, chunk.embedding[1])
        ELSE ix

StoreChunksDb_Skip(d, chunks) == d

RECURSIVE StoreChunksDb(_, _)
\* the batch of inserts of store_chunks
StoreChunksDb(d, chunks) ==
    IF chunks = <<>> THEN d
    ELSE StoreChunksDb(StoreChunkDb(d, Head(chunks)), Tail(chunks))

StoreChunksIndex_Skip(ix, chunks) == ix

RECURSIVE StoreChunksIndex(_, _)
\* the index_updates loop of store_chunks
StoreChunksIndex(ix, chunks) ==
    IF chunks = <<>> THEN ix
    ELSE StoreChunksIndex(IndexAfterStore(ix, Head(chunks)), Tail(chunks))

DeleteFrom_Nothing(m, ids) == m

\* delete_chunk / delete_chunks on one layer
DeleteFrom(m, ids) == MapRemoveAll(m, ids)

\* load_index: the shadow rebuilt from the stored records
LoadIndex(d) ==
    [id \in {x \in DOMAIN d : d[x].embedding # NoEmbedding} |-> d[id].embedding[1]]

\* only the persistent backend has operations that can fail
CanFail(b) == b = "sled"

(***************************************************************************)
(* The binding layer (PyRagEngine) and the engine (RagEngine).             *)
(*                                                                         *)
(* A document's content is [bytes, paras]: its byte length and the byte    *)
(* lengths of its non-blank paragraphs (none: an empty or whitespace-only  *)
(* text).  The paragraphs of the model's documents are single sentences    *)
(* of more than chunk_size tokens, for which chunk_document yields one     *)
(* chunk per paragraph, whose content is the paragraph (chunker.rs         *)
(* 116-157: a non-empty running chunk is emitted before each further       *)
(* paragraph, and get_overlap_content carries no seed when the last        *)
(* sentence alone exceeds the overlap).                                    *)
(***************************************************************************)
Tasks == {1, 2}

Contents ==
    { [bytes |-> 8, paras |-> <<>>],                     \* eight blanks
      [bytes |-> 1000002, paras |-> <<600000, 400000>>] }

\* a query is [bytes, blank]
Queries == { [bytes |-> 0, blank |-> TRUE], [bytes |-> 8, blank |-> FALSE] }

Modes == {"general", "research"}

\* the embedding service's vector for a chunk of the engine's model
UnitEmbedding == <<1, 0>>

\* "rough approximation: 1 token ~ 4 characters": content.len() / 4
EstimateTokens(bytes) == bytes \div 4

ExceedsLimit_Never(current, added) == FALSE

\* the admission test: *current_count + estimated_tokens > token_limit
ExceedsLimit(current, added) == current + added > TokenLimit

\* estimated_return_tokens
Envelope(mode) == IF mode = "general" THEN GeneralEnvelope ELSE ResearchEnvelope

\* RetrievalMode::max_chunks
MaxChunks(mode) == IF mode = "general" THEN MaxChunksGeneral ELSE MaxChunksResearch

IdleTask ==
    [op |-> "none", pc |-> "returned", status |-> "none", id |-> 0, arg |-> None,
     mode |-> None, est |-> 0, pre |-> 0, clean |-> TRUE, chunks |-> <<>>,
     done |-> 0, actual |-> 0]

\* the record of a call that has returned
Returned(t, status) ==
    [IdleTask EXCEPT !.op = task[t].op, !.status = status, !.arg = task[t].arg,
                     !.done = task[t].done]

\* A caller starts a call when its previous one has returned.  Callers are
\* interchangeable: a new call is given to the lowest free one.
CanStart(t) ==
    /\ task[t].pc = "returned"
    /\ calls < MaxCalls
    /\ \A u \in Tasks : u < t => task[u].pc # "returned"

\* Bookkeeping for the compensation of ingests: `clean` of an admitted
\* ingest (running, or waiting for its rollback) is dropped when another
\* operation writes the counter.
TouchTasks(t) ==
    [u \in Tasks |-> IF u # t /\ task[u].op = "ingest" /\ task[u].pc # "returned"
                        THEN [task[u] EXCEPT !.clean = FALSE] ELSE task[u]]

TouchRollbacks(i) ==
    [j \in DOMAIN rollbacks |->
        IF j # i THEN [rollbacks[j] EXCEPT !.clean = FALSE] ELSE rollbacks[j]]

\* Bookkeeping for what later operations add to the counter: reset_at of a
\* pending compensation is the number of calls started when the counter was
\* last set to zero (by reset_token_count or clear) since the failure, 0 if
\* it was not; `later` is the sum of the tokens that successful operations
\* have added since then (a call counts when it returns Ok, if it started
\* after the counter was set to zero).
ForgetRollbacks(r, n) ==
    [j \in DOMAIN r |-> [r[j] EXCEPT !.reset_at = n, !.later = 0]]

CreditRollbacks(r, first, added) ==
    [j \in DOMAIN r |->
        IF r[j].reset_at > 0 /\ first > r[j].reset_at
            THEN [r[j] EXCEPT !.later = @ + added] ELSE r[j]]

\* the chunks of chunk_document, the first `embedded` of them with a vector
\* (embed_chunks zips the chunks with the vectors returned)
ChunksOf(doc, content, embedded) ==
    [i \in 1..Len(content.paras) |->
        [id |-> <<doc, i>>, document_id |-> doc, len |-> content.paras[i],
         embedding |-> IF i <= embedded THEN Some(UnitEmbedding) ELSE NoEmbedding]]

\* ---- PyRagEngine::ingest_document, lines 98-115: the admission
IngestCall(t, content) ==
    /\ CanStart(t)
    /\ calls' = calls + 1
    /\ LET est == EstimateTokens(content.bytes)
           started == [IdleTask EXCEPT !.op = "ingest", !.id = calls + 1,
                                       !.arg = content]
       IN IF ExceedsLimit(token_count, est)
            THEN /\ task' = [task EXCEPT ![t] = [started EXCEPT !.status = "token_limit"]]
                 /\ UNCHANGED <<token_count, rollbacks>>
            ELSE /\ token_count' = token_count + est
                 /\ task' = [TouchTasks(t) EXCEPT ![t] =
                        [started EXCEPT !.pc = "engine_ingest", !.est = est,
                                        !.pre = token_count]]
                 /\ rollbacks' = TouchRollbacks(0)
    /\ UNCHANGED <<documents, stats, storeVars, searchVars, clientVars, cacheVars>>

\* the map_err of lines 119-126: the rollback is spawned, the call returns
FailIngest(t, status) ==
    /\ rollbacks' = MapInsert(rollbacks, task[t].id,
            [est |-> task[t].est, pre |-> task[t].pre, clean |-> task[t].clean,
             reset_at |-> 0, later |-> 0])
    /\ task' = [task EXCEPT ![t] = Returned(t, status)]

TrimIsEmpty_Never(content) == FALSE

\* ---- line 78: content.trim().is_empty(), a text without a paragraph
TrimIsEmpty(content) == content.paras = <<>>

\* ---- RagEngine::ingest_document, lines 78-99: validate, chunk, embed
EngineIngestEmbed(t) ==
    /\ task[t].op = "ingest" /\ task[t].pc = "engine_ingest"
    /\ \/ /\ TrimIsEmpty(task[t].arg)
          /\ FailIngest(t, "invalid_input")
       \/ /\ ~TrimIsEmpty(task[t].arg)
          /\ FailIngest(t, "embedding_error")
       \/ /\ ~TrimIsEmpty(task[t].arg)
          /\ \E embedded \in 0..Len(task[t].arg.paras) :
                task' = [task EXCEPT ![t].pc = "store",
                            ![t].chunks = ChunksOf(task[t].id, task[t].arg, embedded)]
          /\ UNCHANGED rollbacks
    /\ UNCHANGED <<token_count, calls, documents, stats, storeVars, searchVars, clientVars, cacheVars>>

\* ---- line 102: vector_store.store_chunks
EngineIngestStore(t) ==
    /\ task[t].op = "ingest" /\ task[t].pc = "store"
    /\ \/ /\ CanFail(backend)
          /\ FailIngest(t, "store_error")
          /\ UNCHANGED <<db, index>>
       \/ /\ db' = StoreChunksDb(db, task[t].chunks)
          /\ index' = StoreChunksIndex(index, task[t].chunks)
          /\ task' = [task EXCEPT ![t].pc = "insert_doc"]
          /\ UNCHANGED rollbacks
    /\ UNCHANGED <<token_count, calls, documents, stats, backend, iter_order,
                   store_ret, searchVars, clientVars, cacheVars>>

\* ---- lines 105-113: the document, with its chunk ids, enters the map
EngineIngestInsert(t) ==
    /\ task[t].op = "ingest" /\ task[t].pc = "insert_doc"
    /\ documents' = MapInsert(documents, task[t].id,
            [chunk_ids |-> [i \in DOMAIN task[t].chunks |-> task[t].chunks[i].id]])
    /\ task' = [task EXCEPT ![t].pc = "update_stats"]
    /\ UNCHANGED <<token_count, rollbacks, calls, stats, storeVars, searchVars, clientVars, cacheVars>>

\* ---- lines 116-135: statistics, then Ok(document_id)
EngineIngestStats(t) ==
    /\ task[t].op = "ingest" /\ task[t].pc = "update_stats"
    /\ stats' = [document_count |-> stats.document_count + 1,
                 chunk_count |-> stats.chunk_count + Len(task[t].chunks),
                 embedding_count |-> stats.embedding_count
                    + Cardinality({i \in DOMAIN task[t].chunks :
                                        task[t].chunks[i].embedding # NoEmbedding})]
    /\ task' = [task EXCEPT ![t] = Returned(t, "ok")]
    /\ rollbacks' = CreditRollbacks(rollbacks, task[t].id, task[t].est)
    /\ UNCHANGED <<token_count, calls, documents, storeVars, searchVars, clientVars, cacheVars>>

\* ---- lines 121-124: the spawned task subtracts the estimate
Rollback(i) ==
    /\ i \in DOMAIN rollbacks
    /\ token_count' = SaturatingSub(token_count, rollbacks[i].est)
    /\ rollbacks' = MapRemove(TouchRollbacks(i), i)
    /\ task' = TouchTasks(0)
    /\ UNCHANGED <<calls, documents, stats, storeVars, searchVars, clientVars, cacheVars>>

\* ---- RagEngine::get_document
GetDocument(id) == IF id \in DOMAIN documents THEN documents[id] ELSE None

\* the chunks a retrieval can return: those of the shadow that get_chunk finds
Candidates == {c \in DOMAIN index : c \in DOMAIN db}

\* sum of content.len() / 4 over the results
ActualTokens(results) ==
    SumSet([c \in results |-> EstimateTokens(db[c].len)], results)

\* ---- PyRagEngine::retrieve_context, lines 150-173: the check under the read lock
RetrieveCall(t, query, mode) ==
    /\ CanStart(t)
    /\ calls' = calls + 1
    /\ LET started == [IdleTask EXCEPT !.op = "retrieve", !.id = calls + 1,
                                       !.arg = query, !.mode = mode]
       IN IF ExceedsLimit(token_count, EstimateTokens(query.bytes) + Envelope(mode))
            THEN task' = [task EXCEPT ![t] = [started EXCEPT !.status = "token_limit"]]
            ELSE task' = [task EXCEPT ![t] = [started EXCEPT !.pc = "engine_retrieve"]]
    /\ UNCHANGED <<token_count, rollbacks, documents, stats, storeVars, searchVars, clientVars, cacheVars>>

\* ---- RagEngine::retrieve_context.  The scores are the remote services'; any
\* set of at most max_chunks candidates can come back.
EngineRetrieve(t) ==
    /\ task[t].op = "retrieve" /\ task[t].pc = "engine_retrieve"
    /\ \/ /\ task[t].arg.blank
          /\ task' = [task EXCEPT ![t] = Returned(t, "invalid_input")]
       \/ /\ ~task[t].arg.blank
          /\ task' = [task EXCEPT ![t] = Returned(t, "embedding_error")]
       \/ /\ ~task[t].arg.blank
          /\ \E results \in SUBSET Candidates :
                /\ Cardinality(results) <= MaxChunks(task[t].mode)
                /\ task' = [task EXCEPT ![t].pc = "count_update",
                                        ![t].actual = ActualTokens(results)]
    /\ UNCHANGED <<token_count, rollbacks, calls, documents, stats, storeVars,
                   searchVars, clientVars, cacheVars>>

\* ---- lines 179-186: "Update token count with actual usage"
RetrieveCount(t) ==
    /\ task[t].op = "retrieve" /\ task[t].pc = "count_update"
    /\ token_count' = token_count + EstimateTokens(task[t].arg.bytes) + task[t].actual
    /\ task' = [TouchTasks(t) EXCEPT ![t] = Returned(t, "ok")]
    /\ rollbacks' = CreditRollbacks(TouchRollbacks(0), task[t].id,
                        EstimateTokens(task[t].arg.bytes) + task[t].actual)
    /\ UNCHANGED <<calls, documents, stats, storeVars, searchVars, clientVars, cacheVars>>

\* ---- PyRagEngine::reset_token_count
ResetTokenCount(t) ==
    /\ CanStart(t)
    /\ calls' = calls + 1
    /\ token_count' = 0
    /\ task' = [TouchTasks(t) EXCEPT ![t] =
            [IdleTask EXCEPT !.op = "reset", !.status = "ok"]]
    /\ rollbacks' = ForgetRollbacks(TouchRollbacks(0), calls + 1)
    /\ UNCHANGED <<documents, stats, storeVars, searchVars, clientVars, cacheVars>>

\* ---- RagEngine::delete_document, lines 230-235 and 257-259: the lookup
DeleteCall(t, doc) ==
    /\ CanStart(t)
    /\ calls' = calls + 1
    /\ LET started == [IdleTask EXCEPT !.op = "delete", !.id = calls + 1, !.arg = doc]
       IN IF doc \in DOMAIN documents
            THEN task' = [task EXCEPT ![t] =
                    [started EXCEPT !.pc = IF documents[doc].chunk_ids = <<>>
                                             THEN "remove_doc" ELSE "delete_chunks",
                                    !.chunks = documents[doc].chunk_ids]]
            ELSE task' = [task EXCEPT ![t] = [started EXCEPT !.status = "not_found"]]
    /\ UNCHANGED <<token_count, rollbacks, documents, stats, storeVars, searchVars, clientVars, cacheVars>>

\* ---- lines 237-239: one delete_chunk of the loop; an error ends the call
DeleteChunk(t) ==
    /\ task[t].op = "delete" /\ task[t].pc = "delete_chunks"
    /\ LET c == task[t].chunks[task[t].done + 1]
       IN \/ /\ CanFail(backend)
             /\ task' = [task EXCEPT ![t] = Returned(t, "store_error")]
             /\ UNCHANGED <<db, index>>
          \/ /\ db' = DeleteFrom(db, {c})
             /\ index' = DeleteFrom(index, {c})
             /\ task' = [task EXCEPT ![t].done = task[t].done + 1,
                            ![t].pc = IF task[t].done + 1 = Len(task[t].chunks)
                                        THEN "remove_doc" ELSE "delete_chunks"]
    /\ UNCHANGED <<token_count, rollbacks, calls, documents, stats, backend,
                   iter_order, store_ret, searchVars, clientVars, cacheVars>>

\* ---- lines 242-245: documents.remove
DeleteRemoveDoc(t) ==
    /\ task[t].op = "delete" /\ task[t].pc = "remove_doc"
    /\ documents' = MapRemove(documents, task[t].arg)
    /\ task' = [task EXCEPT ![t].pc = "delete_stats"]
    /\ UNCHANGED <<token_count, rollbacks, calls, stats, storeVars, searchVars, clientVars, cacheVars>>

\* ---- lines 248-261: statistics, then Ok(())
DeleteStats(t) ==
    /\ task[t].op = "delete" /\ task[t].pc = "delete_stats"
    /\ stats' = [document_count |-> SaturatingSub(stats.document_count, 1),
                 chunk_count |-> SaturatingSub(stats.chunk_count, Len(task[t].chunks)),
                 embedding_count |->
                    SaturatingSub(stats.embedding_count, Len(task[t].chunks))]
    /\ task' = [task EXCEPT ![t] = Returned(t, "ok")]
    /\ UNCHANGED <<token_count, rollbacks, calls, documents, storeVars, searchVars, clientVars, cacheVars>>

\* ---- PyRagEngine::clear -> RagEngine::clear, line 286: vector_store.clear
ClearCall(t) ==
    /\ CanStart(t)
    /\ calls' = calls + 1
    /\ LET started == [IdleTask EXCEPT !.op = "clear", !.id = calls + 1]
       IN \/ /\ CanFail(backend)
             /\ task' = [task EXCEPT ![t] = [started EXCEPT !.status = "store_error"]]
             /\ UNCHANGED <<db, index>>
          \/ /\ db' = EmptyMap
             /\ index' = EmptyMap
             /\ task' = [task EXCEPT ![t] = [started EXCEPT !.pc = "clear_docs"]]
    /\ UNCHANGED <<token_count, rollbacks, documents, stats, backend, iter_order,
                   store_ret, searchVars, clientVars, cacheVars>>

\* ---- engine.rs lines 289-292: documents.clear
ClearDocs(t) ==
    /\ task[t].op = "clear" /\ task[t].pc = "clear_docs"
    /\ documents' = EmptyMap
    /\ task' = [task EXCEPT ![t].pc = "clear_stats"]
    /\ UNCHANGED <<token_count, rollbacks, calls, stats, storeVars, searchVars, clientVars, cacheVars>>

\* ---- engine.rs lines 295-301: cache.clear and the statistics reset
ClearStats(t) ==
    /\ task[t].op = "clear" /\ task[t].pc = "clear_stats"
    /\ stats' = [document_count |-> 0, chunk_count |-> 0, embedding_count |-> 0]
    /\ task' = [task EXCEPT ![t].pc = "clear_count"]
    /\ UNCHANGED <<token_count, rollbacks, calls, documents, storeVars, searchVars, clientVars, cacheVars>>

\* ---- python_bindings.rs lines 308-310: "Reset token count"
ClearCount(t) ==
    /\ task[t].op = "clear" /\ task[t].pc = "clear_count"
    /\ token_count' = 0
    /\ task' = [TouchTasks(t) EXCEPT ![t] = Returned(t, "ok")]
    /\ rollbacks' = ForgetRollbacks(TouchRollbacks(0), calls)
    /\ UNCHANGED <<calls, documents, stats, storeVars, searchVars, clientVars, cacheVars>>

(***************************************************************************)
(* The parts of the state a specification does not drive stay as built.    *)
(***************************************************************************)
StoreIdle ==
    /\ db = EmptyMap
    /\ index = EmptyMap
    /\ iter_order = <<>>
    /\ store_ret = None

IdleSearch ==
    [op |-> "none", pc |-> "returned", query |-> <<>>, qs |-> <<>>, k |-> 0,
     min |-> <<>>, partial |-> <<>>, finished |-> <<>>, result |-> <<>>]

SearchIdle == search = IdleSearch

ClientIdle ==
    /\ retr = None
    /\ retry = None
    /\ ingest = None
    /\ fcall = None

CacheIdle ==
    /\ cache = None
    /\ cache_stats = None
    /\ cache_cfg = None
    /\ now = 0
    /\ cache_ret = None
    /\ cache_hist = None

EngineIdle ==
    /\ token_count = 0
    /\ task = [t \in Tasks |-> IdleTask]
    /\ rollbacks = EmptyMap
    /\ calls = 0
    /\ documents = EmptyMap
    /\ stats = [document_count |-> 0, chunk_count |-> 0, embedding_count |-> 0]

(***************************************************************************)
(* Spec: one PyRagEngine used by two concurrent callers.  Its engine is    *)
(* built from RagConfig::default() (python_bindings.rs 41 and 506-510),    *)
(* whose backend is the persistent one (config.rs 67).                     *)
(***************************************************************************)
Init ==
    /\ EngineIdle
    /\ backend = "sled"
    /\ StoreIdle
    /\ SearchIdle
    /\ ClientIdle
    /\ CacheIdle

Next ==
    \/ \E t \in Tasks, content \in Contents : IngestCall(t, content)
    \/ \E t \in Tasks : EngineIngestEmbed(t)
    \/ \E t \in Tasks : EngineIngestStore(t)
    \/ \E t \in Tasks : EngineIngestInsert(t)
    \/ \E t \in Tasks : EngineIngestStats(t)
    \/ \E i \in 1..MaxCalls : Rollback(i)
    \/ \E t \in Tasks, query \in Queries, mode \in Modes : RetrieveCall(t, query, mode)
    \/ \E t \in Tasks : EngineRetrieve(t)
    \/ \E t \in Tasks : RetrieveCount(t)
    \/ \E t \in Tasks : ResetTokenCount(t)
    \/ \E t \in Tasks, doc \in 1..MaxCalls : DeleteCall(t, doc)
    \/ \E t \in Tasks : DeleteChunk(t)
    \/ \E t \in Tasks : DeleteRemoveDoc(t)
    \/ \E t \in Tasks : DeleteStats(t)
    \/ \E t \in Tasks : ClearCall(t)
    \/ \E t \in Tasks : ClearDocs(t)
    \/ \E t \in Tasks : ClearStats(t)
    \/ \E t \in Tasks : ClearCount(t)

Spec == Init /\ [][Next]_vars

\* FairSpec: the same engine with the runtime's scheduling: every spawned
\* task is run (tokio::spawn on the runtime that drives the call,
\* python_bindings.rs 121).  It is followed from the state a first
\* call leaves, a delete_document of an unknown id.
FairInit ==
    /\ token_count = 0
    /\ task = [t \in Tasks |->
            IF t = 1 THEN [IdleTask EXCEPT !.op = "delete", !.status = "not_found",
                                           !.id = 1, !.arg = 1]
                     ELSE IdleTask]
    /\ rollbacks = EmptyMap
    /\ calls = 1
    /\ documents = EmptyMap
    /\ stats = [document_count |-> 0, chunk_count |-> 0, embedding_count |-> 0]
    /\ backend = "sled"
    /\ StoreIdle
    /\ SearchIdle
    /\ ClientIdle
    /\ CacheIdle

FairSpec ==
    /\ FairInit
    /\ [][Next]_vars
    /\ \A i \in 1..MaxCalls : WF_vars(Rollback(i))

(***************************************************************************)
(* The token budget (Spec, FairSpec).                                      *)
(***************************************************************************)
\* C1: in every reachable state the session token counter is at least 0 and
\* at most token_limit.  (Refuted: retrieve_context adds the actual usage
\* after the call without comparing it to the limit.)
C1_CounterWithinLimit == token_count >= 0 /\ token_count <= TokenLimit

\* C2: an ingest_document call whose estimate added to the current counter
\* exceeds token_limit returns the token-limit error, and the step leaves the
\* counter, the document map and both layers of the vector store unchanged.
C2_RejectedIngestChangesNothing ==
    [][\A t \in Tasks :
        ( /\ calls' = calls + 1
          /\ task'[t].op = "ingest"
          /\ task'[t].id = calls'
          /\ token_count + (task'[t].arg.bytes \div 4) > TokenLimit )
        => /\ task'[t].pc = "returned"
           /\ task'[t].status = "token_limit"
           /\ UNCHANGED <<token_count, documents, db, index>>]_vars

\* a rejected ingest, with a document in the engine and a counter above zero
C2_Witness ==
    \E t \in Tasks :
        /\ task[t].op = "ingest"
        /\ task[t].pc = "returned"
        /\ task[t].status = "token_limit"
        /\ token_count > 0
        /\ documents # EmptyMap

\* C3: when an admitted ingest fails in the engine, its estimate is
\* subtracted again: the compensation eventually runs, and when no other
\* operation wrote the counter since the admission, the counter is then the
\* value it had before the admission.
C3_FailedIngestCompensated ==
    /\ [][\A i \in 1..MaxCalls :
            (i \in DOMAIN rollbacks /\ i \notin DOMAIN rollbacks' /\ rollbacks[i].clean)
            => token_count' = rollbacks[i].pre]_vars
    /\ \A i \in 1..MaxCalls :
            (i \in DOMAIN rollbacks) ~> (i \notin DOMAIN rollbacks)

\* the call after the ingest of document 2 was an ingest over a counter of
\* 250000 that failed in the store; its compensation has run and the counter
\* is 250000 again
C3_Witness ==
    /\ calls = 3
    /\ 2 \in DOMAIN documents
    /\ task[1].op = "ingest"
    /\ task[1].pc = "returned"
    /\ task[1].status = "store_error"
    /\ rollbacks = EmptyMap
    /\ token_count = 250000

(***************************************************************************)
(* delete_document (Spec).                                                 *)
(***************************************************************************)
\* the chunk ids of a layer whose parent document is doc
ChunksOfDocument(m, doc) == {c \in DOMAIN m : c[1] = doc}

\* C4: after delete_document(id) has returned successfully, get_document(id)
\* is None and neither the durable layer nor the shadow index holds a chunk
\* whose parent document is id.
C4_DeletedDocumentIsGone ==
    \A t \in Tasks :
        (task[t].op = "delete" /\ task[t].pc = "returned" /\ task[t].status = "ok")
        => /\ GetDocument(task[t].arg) = None
           /\ ChunksOfDocument(db, task[t].arg) = {}
           /\ ChunksOfDocument(index, task[t].arg) = {}

\* a successful delete of a document of two chunks
C4_Witness ==
    \E t \in Tasks :
        /\ task[t].op = "delete"
        /\ task[t].pc = "returned"
        /\ task[t].status = "ok"
        /\ task[t].done = 2

\* C5: a delete_document that returns an error has removed none of the
\* document's chunks, and one that succeeds has removed all of them.
\* (Refuted: the chunks are deleted one at a time and an error ends the
\* loop after the earlier ones are gone.)
C5_DeleteIsTransactional ==
    \A t \in Tasks :
        (task[t].op = "delete" /\ task[t].pc = "returned")
        => /\ task[t].status = "store_error" => task[t].done = 0
           /\ task[t].status = "ok" =>
                /\ ChunksOfDocument(db, task[t].arg) = {}
                /\ ChunksOfDocument(index, task[t].arg) = {}

(***************************************************************************)
(* SpecStore: one vector store, either backend, driven by a sequential     *)
(* client through the VectorStore trait.  Each action is a whole call.     *)
(***************************************************************************)
StoreIds == {<<1, 1>>, <<1, 2>>}

\* the embeddings a caller can pass: none, two of the configured dimension,
\* one of another length
StoreEmbeddings == {NoEmbedding, Some(<<1, 0>>), Some(<<0, 1>>), Some(<<1, 0, 0>>)}

StoreInputs ==
    {[id |-> i, document_id |-> i[1], len |-> 4, embedding |-> e] :
        i \in StoreIds, e \in StoreEmbeddings}

\* the sequences over S of length at most n
SeqsUpTo(S, n) == UNION {[1..k -> S] : k \in 0..n}

\* ---- VectorStore::store_chunk
StoreChunk(chunk) ==
    /\ \/ /\ CanFail(backend)
          /\ store_ret' = [op |-> "store_chunk", status |-> "store_error"]
          /\ UNCHANGED <<db, index>>
       \/ /\ db' = StoreChunkDb(db, chunk)
          /\ index' = IndexAfterStore(index, chunk)
          /\ store_ret' = [op |-> "store_chunk", status |-> "ok"]
    /\ UNCHANGED <<engineVars, backend, iter_order, searchVars, clientVars, cacheVars>>

\* ---- VectorStore::store_chunks
StoreChunks(chunks) ==
    /\ \/ /\ CanFail(backend)
          /\ chunks # <<>>
          /\ store_ret' = [op |-> "store_chunks", status |-> "store_error"]
          /\ UNCHANGED <<db, index>>
       \/ /\ db' = StoreChunksDb(db, chunks)
          /\ index' = StoreChunksIndex(index, chunks)
          /\ store_ret' = [op |-> "store_chunks", status |-> "ok"]
    /\ UNCHANGED <<engineVars, backend, iter_order, searchVars, clientVars, cacheVars>>

\* ---- VectorStore::delete_chunk
StoreDeleteChunk(id) ==
    /\ \/ /\ CanFail(backend)
          /\ store_ret' = [op |-> "delete_chunk", status |-> "store_error"]
          /\ UNCHANGED <<db, index>>
       \/ /\ db' = DeleteFrom(db, {id})
          /\ index' = DeleteFrom(index, {id})
          /\ store_ret' = [op |-> "delete_chunk", status |-> "ok"]
    /\ UNCHANGED <<engineVars, backend, iter_order, searchVars, clientVars, cacheVars>>

\* ---- VectorStore::delete_chunks
StoreDeleteChunks(ids) ==
    /\ \/ /\ CanFail(backend)
          /\ ids # <<>>
          /\ store_ret' = [op |-> "delete_chunks", status |-> "store_error"]
          /\ UNCHANGED <<db, index>>
       \/ /\ db' = DeleteFrom(db, Range(ids))
          /\ index' = DeleteFrom(index, Range(ids))
          /\ store_ret' = [op |-> "delete_chunks", status |-> "ok"]
    /\ UNCHANGED <<engineVars, backend, iter_order, searchVars, clientVars, cacheVars>>

\* ---- VectorStore::clear
StoreClear ==
    /\ \/ /\ CanFail(backend)
          /\ store_ret' = [op |-> "clear", status |-> "store_error"]
          /\ UNCHANGED <<db, index>>
       \/ /\ db' = EmptyMap
          /\ index' = EmptyMap
          /\ store_ret' = [op |-> "clear", status |-> "ok"]
    /\ UNCHANGED <<engineVars, backend, iter_order, searchVars, clientVars, cacheVars>>

StoreInit ==
    /\ EngineIdle
    /\ backend \in {"sled", "faiss"}
    /\ StoreIdle
    /\ SearchIdle
    /\ ClientIdle
    /\ CacheIdle

StoreNext ==
    \/ \E chunk \in StoreInputs : StoreChunk(chunk)
    \/ \E chunks \in SeqsUpTo(StoreInputs, MaxBatch) : StoreChunks(chunks)
    \/ \E id \in StoreIds : StoreDeleteChunk(id)
    \/ \E ids \in SeqsUpTo(StoreIds, MaxBatch) : StoreDeleteChunks(ids)
    \/ StoreClear

SpecStore == StoreInit /\ [][StoreNext]_vars

\* C6: after any sequence of store operations the shadow index has an entry
\* for a chunk id exactly when the stored chunk with that id has an
\* embedding, and the entry equals it: the live shadow equals the shadow
\* load_index rebuilds from the stored records.  (Refuted: re-storing an id
\* without an embedding leaves the old shadow entry.)
C6_ShadowMatchesStore == index = LoadIndex(db)

\* C9: every chunk held in the store with an embedding has an embedding of
\* the configured dimension.  (Refuted: no store operation looks at the
\* length of the embedding.)
C9_StoredEmbeddingsHaveDimension ==
    \A c \in DOMAIN db :
        db[c].embedding # NoEmbedding => Len(db[c].embedding[1]) = Dimension

(***************************************************************************)
(* SpecSearch: the similarity search over a shadow index.  The shadow and  *)
(* the order in which its HashMap yields its entries are drawn at the      *)
(* start and stay: a search holds the read guard of the index, and no      *)
(* writer is part of this specification; a behaviour follows one call.     *)
(* A score is the cosine times 100; the vectors of the model have integer  *)
(* norms, which makes it exact.  Every score is a finite number: vectors   *)
(* with NaN or overflowing components are not among the inputs.            *)
(* An optional min_score is an Option like a chunk's embedding.            *)
(***************************************************************************)
SearchIds == {<<1, 1>>, <<1, 2>>, <<1, 3>>}

ShadowVectors == {<<1, 0>>, <<3, 4>>, <<4, 3>>, <<1, 0, 0>>}

QueryVectors == {<<3, 4>>, <<0, 0>>}

MinScores == {NoEmbedding, Some(60), Some(100)}

Min(a, b) == IF a <= b THEN a ELSE b

\* the dot product
Dot(a, b) == SumSeq([i \in 1..Len(a) |-> a[i] * b[i]])

\* f32::sqrt, on the squares of the model
ISqrt(n) == CHOOSE r \in 0..n : r * r <= n /\ (r + 1) * (r + 1) > n

\* ---- SledVectorStore::cosine_similarity
CosineSimilarity(a, b) ==
    IF Len(a) # Len(b) THEN 0
    ELSE LET norm_a == ISqrt(Dot(a, a))
             norm_b == ISqrt(Dot(b, b))
         IN IF norm_a = 0 \/ norm_b = 0 THEN 0
            ELSE (100 * Dot(a, b)) \div (norm_a * norm_b)

InsertDesc_Last(s, p) == Append(s, p)

RECURSIVE InsertDesc(_, _)
\* p goes behind every pair whose score is not smaller
InsertDesc(s, p) ==
    IF s = <<>> THEN <<p>>
    ELSE IF Head(s)[2] >= p[2] THEN <<Head(s)>> \o InsertDesc(Tail(s), p)
    ELSE <<p>> \o s

RECURSIVE SortDesc(_)
\* sort_by(|a, b| b.1.partial_cmp(&a.1)): a stable sort, descending
SortDesc(s) ==
    IF s = <<>> THEN <<>>
    ELSE InsertDesc(SortDesc(SubSeq(s, 1, Len(s) - 1)), s[Len(s)])

\* Vec::truncate
Truncate(s, n) == SubSeq(s, 1, Min(n, Len(s)))

\* the filter closure of the search
Qualifies(score, min_score) == min_score = NoEmbedding \/ score >= min_score[1]

ParallelSimilaritySearch_Unsorted(query, embeddings, order, top_k, min_score) ==
    LET scored == [i \in 1..Len(order) |->
                      <<order[i], CosineSimilarity(query, embeddings[order[i]])>>]
        Keep(p) == Qualifies(p[2], min_score)
    IN Truncate(SelectSeq(scored, Keep), top_k)

\* ---- SledVectorStore::parallel_similarity_search; `order` is the order in
\* which the map yields its entries (rayon's collect keeps it)
ParallelSimilaritySearch(query, embeddings, order, top_k, min_score) ==
    LET scored == [i \in 1..Len(order) |->
                      <<order[i], CosineSimilarity(query, embeddings[order[i]])>>]
        Keep(p) == Qualifies(p[2], min_score)
    IN Truncate(SortDesc(SelectSeq(scored, Keep)), top_k)

\* ---- VectorStore::search_similar
SearchSimilar(query, top_k) ==
    IF index = EmptyMap THEN <<>>
    ELSE ParallelSimilaritySearch(query, index, iter_order, top_k, NoEmbedding)

\* the call of the pure function on the shadow
ParallelSearchCall(query, top_k, min_score) ==
    /\ search.op = "none"
    /\ search' = [IdleSearch EXCEPT !.op = "parallel_similarity_search",
                    !.query = query, !.k = top_k, !.min = min_score,
                    !.result = ParallelSimilaritySearch(query, index, iter_order,
                                                        top_k, min_score)]
    /\ UNCHANGED <<engineVars, storeVars, clientVars, cacheVars>>

SearchSimilarCall(query, top_k) ==
    /\ search.op = "none"
    /\ search' = [IdleSearch EXCEPT !.op = "search_similar", !.query = query,
                    !.k = top_k, !.result = SearchSimilar(query, top_k)]
    /\ UNCHANGED <<engineVars, storeVars, clientVars, cacheVars>>

CollectInOrder_AsFinished(partial, finished) ==
    [j \in 1..Len(finished) |-> partial[finished[j]]]

\* the collect of the batch: the result of the i-th query is the i-th
\* element, whatever the order the workers finished in
CollectInOrder(partial, finished) ==
    [i \in 1..Len(finished) |-> partial[i]]

\* ---- VectorStore::batch_search_similar: the read guard, the empty shadow
BatchStart(qs, top_k) ==
    /\ search.op = "none"
    /\ IF index = EmptyMap
         THEN search' = [IdleSearch EXCEPT !.op = "batch_search_similar",
                            !.qs = qs, !.k = top_k,
                            !.result = [i \in 1..Len(qs) |-> <<>>]]
         ELSE search' = [IdleSearch EXCEPT !.op = "batch_search_similar",
                            !.pc = "workers", !.qs = qs, !.k = top_k]
    /\ UNCHANGED <<engineVars, storeVars, clientVars, cacheVars>>

\* ---- one query of the par_iter
BatchWorker(i) ==
    /\ search.pc = "workers"
    /\ i \in 1..Len(search.qs)
    /\ i \notin DOMAIN search.partial
    /\ search' = [search EXCEPT
            !.partial = MapInsert(search.partial, i,
                ParallelSimilaritySearch(search.qs[i], index, iter_order,
                                         search.k, NoEmbedding)),
            !.finished = Append(search.finished, i)]
    /\ UNCHANGED <<engineVars, storeVars, clientVars, cacheVars>>

\* ---- the collect, then Ok(results)
BatchDone ==
    /\ search.pc = "workers"
    /\ DOMAIN search.partial = 1..Len(search.qs)
    /\ search' = [search EXCEPT !.pc = "returned", !.partial = <<>>,
                    !.result = CollectInOrder(search.partial, search.finished)]
    /\ UNCHANGED <<engineVars, storeVars, clientVars, cacheVars>>

\* the orders in which a map of domain D can yield its entries
Orders(D) ==
    {o \in [1..Cardinality(D) -> D] : \A i, j \in DOMAIN o : o[i] = o[j] => i = j}

SearchInit ==
    /\ EngineIdle
    /\ backend = "faiss"
    /\ db = EmptyMap
    /\ store_ret = None
    /\ \E D \in SUBSET SearchIds :
            /\ index \in [D -> ShadowVectors]
            /\ iter_order \in Orders(D)
    /\ SearchIdle
    /\ ClientIdle
    /\ CacheIdle

SearchNext ==
    \/ \E query \in QueryVectors, top_k \in 0..MaxK, min_score \in MinScores :
            ParallelSearchCall(query, top_k, min_score)
    \/ \E query \in QueryVectors, top_k \in 0..MaxK : SearchSimilarCall(query, top_k)
    \/ \E qs \in SeqsUpTo(QueryVectors, MaxQueries), top_k \in 0..MaxK :
            BatchStart(qs, top_k)
    \/ \E i \in 1..MaxQueries : BatchWorker(i)
    \/ BatchDone

SpecSearch == SearchInit /\ [][SearchNext]_vars

\* the score of a shadow entry for the query of the search on record
ScoreOf(c) == CosineSimilarity(search.query, index[c])

\* the shadow entries that pass the search's filter
Qualifying == {c \in DOMAIN index : Qualifies(ScoreOf(c), search.min)}

\* C7: a search with limit k and optional min_score returns exactly
\* min(k, n) pairs, n the number of shadow entries whose score is at least
\* min_score (all entries without one); each pair is a qualifying entry with
\* its score, no entry twice; the scores do not increase along the result;
\* and no qualifying entry left out scores strictly higher than a returned
\* one.
C7_SearchIsFilteredTopK ==
    search.op = "parallel_similarity_search" =>
        LET r == search.result
            ids == {r[i][1] : i \in DOMAIN r}
        IN /\ Len(r) = Min(search.k, Cardinality(Qualifying))
           /\ ids \subseteq Qualifying
           /\ Cardinality(ids) = Len(r)
           /\ \A i \in DOMAIN r : r[i][2] = ScoreOf(r[i][1])
           /\ \A i, j \in DOMAIN r : i < j => r[i][2] >= r[j][2]
           /\ \A c \in Qualifying \ ids : \A i \in DOMAIN r : ScoreOf(c) <= r[i][2]

\* a search with a min_score that some entry fails, with more qualifying
\* entries than the limit, of which a higher one is returned and a lower one
\* is left out
C7_Witness ==
    /\ search.op = "parallel_similarity_search"
    /\ search.min # NoEmbedding
    /\ search.k > 0
    /\ Len(search.result) = search.k
    /\ Qualifying # DOMAIN index
    /\ \E c \in Qualifying : \A i \in DOMAIN search.result :
            /\ search.result[i][1] # c
            /\ ScoreOf(c) < search.result[i][2]

\* C8: batch_search_similar(qs, k) returns a list as long as qs whose i-th
\* element is the result of search_similar(qs[i], k) in the same store
\* state, the empty shadow included.
C8_BatchEqualsSingleSearches ==
    (search.op = "batch_search_similar" /\ search.pc = "returned") =>
        /\ Len(search.result) = Len(search.qs)
        /\ \A i \in 1..Len(search.qs) :
                search.result[i] = SearchSimilar(search.qs[i], search.k)

\* a batch of two queries whose workers finished in the reverse order and
\* whose results differ
C8_Witness ==
    /\ search.op = "batch_search_similar"
    /\ search.pc = "returned"
    /\ search.finished = <<2, 1>>
    /\ search.result[1] # search.result[2]
    /\ search.result[1] # <<>>

(***************************************************************************)
(* SpecCache: one RagCache under a clock.  A layer is an LruCache, here    *)
(* the sequence of its items [key, value, created_at], most recently used  *)
(* first; a key is the 64-bit CacheKey.  The three layers run the same     *)
(* code on their own LruCache; a behaviour follows the puts and gets of    *)
(* one layer, drawn at the start, together with clear, cleanup_expired and *)
(* the passing of time.  The value of a put is the number of the call, so  *)
(* that no two puts store the same value.                                  *)
(*   cache_hist = [layer, n, put, others, used]: the layer of the          *)
(*     behaviour, the calls made, per key the last put ([value, at], an    *)
(*     Option) and the other keys put or found since then, and per key the *)
(*     number of the call that last used it (a put, or a get that found    *)
(*     it);                                                                *)
(*   cache_ret: the last call, with what it returned and, for a get, the   *)
(*     history of its key as it was when the get ran.                      *)
(***************************************************************************)
CacheLayers == {"embeddings", "reranking", "retrieval"}

CacheKeys == {1, 2, 3}

\* ---- CacheConfig: everything on, the cache off, or one layer off
CacheConfigs ==
    {[enabled |-> e, max_size |-> m, ttl |-> l,
      cache_embeddings |-> f[1], cache_reranking |-> f[2], cache_retrieval |-> f[3]] :
        e \in BOOLEAN, m \in {1, 2}, l \in {1, 2},
        f \in {<<TRUE, TRUE, TRUE>>, <<FALSE, TRUE, TRUE>>,
               <<TRUE, FALSE, TRUE>>, <<TRUE, TRUE, FALSE>>}}

LayerEnabled_Always(cfg, layer) == TRUE

\* the guard at the head of every put and get
LayerEnabled(cfg, layer) ==
    /\ cfg.enabled
    /\ CASE layer = "embeddings" -> cfg.cache_embeddings
         [] layer = "reranking" -> cfg.cache_reranking
         [] layer = "retrieval" -> cfg.cache_retrieval

\* ---- RagCache::new: the capacity of each LruCache
Capacity(cfg) == IF cfg.enabled THEN cfg.max_size ELSE 1

IsExpired_Never(created_at, ttl, t) == FALSE

IsExpired_AtTtl(created_at, ttl, t) == t - created_at >= ttl

IsExpired_Early(created_at, ttl, t) == t > created_at

\* ---- CachedItem::is_expired at time t
IsExpired(created_at, ttl, t) == t - created_at > ttl

\* LruCache::contains
LruContains(s, key) == \E i \in DOMAIN s : s[i].key = key

\* LruCache::peek
LruItem(s, key) == s[CHOOSE i \in DOMAIN s : s[i].key = key]

\* LruCache::pop
LruPop(s, key) ==
    LET Other(e) == e.key # key
    IN SelectSeq(s, Other)

LruPut_DropNewest(s, item, cap) ==
    IF \E i \in DOMAIN s : s[i].key = item.key
        THEN <<item>> \o SelectSeq(s, LAMBDA e : e.key # item.key)
    ELSE IF Len(s) >= cap THEN <<item>> \o SubSeq(s, 2, cap)
    ELSE <<item>> \o s

LruPut_Duplicate(s, item, cap) ==
    IF Len(s) >= cap THEN <<item>> \o SubSeq(s, 1, cap - 1) ELSE <<item>> \o s

\* LruCache::put: a present key is replaced, a full cache drops its least
\* recently used item; the item is then the most recently used
LruPut(s, item, cap) ==
    IF LruContains(s, item.key) THEN <<item>> \o LruPop(s, item.key)
    ELSE IF Len(s) >= cap THEN <<item>> \o SubSeq(s, 1, cap - 1)
    ELSE <<item>> \o s

\* LruCache::get: the item found becomes the most recently used
LruGet(s, key) ==
    IF LruContains(s, key) THEN <<LruItem(s, key)>> \o LruPop(s, key) ELSE s

\* the history after `key` was put (value v) or found: every other key has
\* seen `key` used
HistTouched(h, key) ==
    [h EXCEPT !.n = h.n + 1,
              !.used[key] = h.n + 1,
              !.others = [j \in CacheKeys |->
                            IF j # key THEN h.others[j] \cup {key} ELSE h.others[j]]]

NoHist == [j \in CacheKeys |-> <<>>]

NoOthers == [j \in CacheKeys |-> {}]

NoUses == [j \in CacheKeys |-> 0]

IdleRet == [op |-> "none", key |-> 0, value |-> <<>>, at |-> 0, put |-> <<>>, others |-> {}]

\* ---- cache_embedding / cache_reranking / cache_retrieval
CachePut(key) ==
    /\ cache_hist.n < MaxCacheOps
    /\ LET layer == cache_hist.layer
           v == cache_hist.n + 1
           item == [key |-> key, value |-> v, created_at |-> now]
       IN /\ cache_ret' = [IdleRet EXCEPT !.op = "put", !.key = key, !.at = now]
          /\ IF ~LayerEnabled(cache_cfg, layer)
               THEN /\ cache_hist' =
                        [HistTouched(cache_hist, key) EXCEPT
                            !.put[key] = <<[value |-> v, at |-> now]>>,
                            !.others[key] = {}]
                    /\ UNCHANGED <<cache, cache_stats>>
               ELSE /\ cache' = [cache EXCEPT ![layer] = LruPut(@, item, Capacity(cache_cfg))]
                    /\ cache_stats' =
                        IF LruContains(cache[layer], key)
                            THEN [cache_stats EXCEPT !.evictions = @ + 1]
                            ELSE cache_stats
                    /\ cache_hist' =
                        [HistTouched(cache_hist, key) EXCEPT
                            !.put[key] = <<[value |-> v, at |-> now]>>,
                            !.others[key] = {}]
    /\ UNCHANGED <<cache_cfg, now, engineVars, storeVars, searchVars, clientVars>>

\* ---- get_embedding / get_reranking / get_retrieval
CacheGet(key) ==
    /\ cache_hist.n < MaxCacheOps
    /\ LET layer == cache_hist.layer
           ret == [IdleRet EXCEPT !.op = "get", !.key = key, !.at = now,
                                  !.put = cache_hist.put[key],
                                  !.others = cache_hist.others[key]]
       IN IF ~LayerEnabled(cache_cfg, layer)
            THEN /\ cache_ret' = ret
                 /\ cache_hist' = [cache_hist EXCEPT !.n = cache_hist.n + 1]
                 /\ UNCHANGED <<cache, cache_stats>>
            ELSE IF LruContains(cache[layer], key)
                   THEN LET item == LruItem(cache[layer], key)
                        IN /\ cache_hist' = HistTouched(cache_hist, key)
                           /\ IF IsExpired(item.created_at, cache_cfg.ttl, now)
                                THEN /\ cache' = [cache EXCEPT ![layer] = LruPop(@, key)]
                                     /\ cache_stats' = [cache_stats EXCEPT !.misses[layer] = @ + 1]
                                     /\ cache_ret' = ret
                                ELSE /\ cache' = [cache EXCEPT ![layer] = LruGet(@, key)]
                                     /\ cache_stats' = [cache_stats EXCEPT !.hits[layer] = @ + 1]
                                     /\ cache_ret' = [ret EXCEPT !.value = <<item.value>>]
                   ELSE /\ cache_stats' = [cache_stats EXCEPT !.misses[layer] = @ + 1]
                        /\ cache_ret' = ret
                        /\ cache_hist' = [cache_hist EXCEPT !.n = cache_hist.n + 1]
                        /\ UNCHANGED cache
    /\ UNCHANGED <<cache_cfg, now, engineVars, storeVars, searchVars, clientVars>>

NoStats ==
    [hits |-> [l \in CacheLayers |-> 0], misses |-> [l \in CacheLayers |-> 0],
     evictions |-> 0]

\* ---- RagCache::clear
CacheClear ==
    /\ cache_hist.n < MaxCacheOps
    /\ cache' = [l \in CacheLayers |-> <<>>]
    /\ cache_stats' = NoStats
    /\ cache_ret' = [IdleRet EXCEPT !.op = "clear", !.at = now]
    /\ cache_hist' = [cache_hist EXCEPT !.n = cache_hist.n + 1, !.put = NoHist,
                                        !.others = NoOthers, !.used = NoUses]
    /\ UNCHANGED <<cache_cfg, now, engineVars, storeVars, searchVars, clientVars>>

\* ---- RagCache::cleanup_expired
CacheCleanupExpired ==
    /\ cache_hist.n < MaxCacheOps
    /\ LET Fresh(e) == ~IsExpired(e.created_at, cache_cfg.ttl, now)
           kept == [l \in CacheLayers |-> SelectSeq(cache[l], Fresh)]
           total_removed ==
                SumSet([l \in CacheLayers |-> Len(cache[l]) - Len(kept[l])], CacheLayers)
       IN /\ cache' = kept
          /\ cache_ret' = [IdleRet EXCEPT !.op = "cleanup_expired", !.at = now,
                                          !.value = <<total_removed>>]
    /\ cache_hist' = [cache_hist EXCEPT !.n = cache_hist.n + 1]
    /\ UNCHANGED <<cache_stats, cache_cfg, now, engineVars, storeVars, searchVars, clientVars>>

\* a second passes
CacheTick ==
    /\ now < MaxTime
    /\ now' = now + 1
    /\ UNCHANGED <<cache, cache_stats, cache_cfg, cache_ret, cache_hist,
                   engineVars, storeVars, searchVars, clientVars>>

CacheInit ==
    /\ EngineIdle
    /\ backend = "sled"
    /\ StoreIdle
    /\ SearchIdle
    /\ ClientIdle
    /\ cache = [l \in CacheLayers |-> <<>>]
    /\ cache_stats = NoStats
    /\ cache_cfg \in CacheConfigs
    /\ now = 0
    /\ cache_ret = IdleRet
    /\ \E layer \in CacheLayers :
            cache_hist = [layer |-> layer, n |-> 0, put |-> NoHist,
                          others |-> NoOthers, used |-> NoUses]

CacheNext ==
    \/ \E key \in CacheKeys : CachePut(key)
    \/ \E key \in CacheKeys : CacheGet(key)
    \/ CacheClear
    \/ CacheCleanupExpired
    \/ CacheTick

SpecCache == CacheInit /\ [][CacheNext]_vars

\* C10 as stated: on an enabled layer, a get of a key that follows a put of
\* that key returns exactly the value put while less than ttl has elapsed
\* since the put, whatever other puts and gets happened in between (no
\* clear), and None once more than ttl has elapsed.  (Refuted: a put of
\* another key into a full layer drops the least recently used item.)
C10_GetAfterPutWithinTtl ==
    ( /\ cache_ret.op = "get"
      /\ LayerEnabled(cache_cfg, cache_hist.layer)
      /\ cache_ret.put # <<>> ) =>
        LET p == cache_ret.put[1]
            elapsed == cache_ret.at - p.at
        IN /\ elapsed < cache_cfg.ttl => cache_ret.value = <<p.value>>
           /\ elapsed > cache_cfg.ttl => cache_ret.value = <<>>

\* C10, amended: on an enabled layer, a get of a key that follows a put of
\* that key returns exactly the value put while less than ttl has elapsed
\* since the put and fewer than max_size distinct other keys have been put
\* or found on the layer since the put (no clear); once more than ttl has
\* elapsed it returns None.
C10_GetAfterPutWithinCapacity ==
    ( /\ cache_ret.op = "get"
      /\ LayerEnabled(cache_cfg, cache_hist.layer)
      /\ cache_ret.put # <<>> ) =>
        LET p == cache_ret.put[1]
            elapsed == cache_ret.at - p.at
        IN /\ ( /\ elapsed < cache_cfg.ttl
                /\ Cardinality(cache_ret.others) < cache_cfg.max_size )
              => cache_ret.value = <<p.value>>
           /\ elapsed > cache_cfg.ttl => cache_ret.value = <<>>

\* a get that returned the value put, after a second had passed and another
\* key had been put on the layer in between
C10_Witness ==
    /\ cache_ret.op = "get"
    /\ LayerEnabled(cache_cfg, cache_hist.layer)
    /\ cache_ret.put # <<>>
    /\ cache_ret.others # {}
    /\ cache_ret.at > cache_ret.put[1].at
    /\ cache_ret.at - cache_ret.put[1].at < cache_cfg.ttl
    /\ cache_ret.value = <<cache_ret.put[1].value>>

\* C11: with cache.enabled false every get returns None and every put leaves
\* all three layers empty; with only the flag of one layer false the same
\* holds for that layer, while a layer that is on keeps what is put into it.
C11_DisabledLayerStoresNothing ==
    LET layer == cache_hist.layer
        off == \/ ~cache_cfg.enabled
               \/ layer = "embeddings" /\ ~cache_cfg.cache_embeddings
               \/ layer = "reranking" /\ ~cache_cfg.cache_reranking
               \/ layer = "retrieval" /\ ~cache_cfg.cache_retrieval
    IN /\ ~cache_cfg.enabled => \A l \in CacheLayers : cache[l] = <<>>
       /\ off => /\ cache[layer] = <<>>
                 /\ cache_ret.op = "get" => cache_ret.value = <<>>
       /\ (~off /\ cache_ret.op = "put") =>
            /\ cache[layer] # <<>>
            /\ cache[layer][1].key = cache_ret.key
            /\ cache[layer][1].created_at = cache_ret.at

\* the cache is on, the flag of the layer is off: a get that follows a put of
\* its key, in the same second, returned None
C11_Witness ==
    /\ cache_cfg.enabled
    /\ ~LayerEnabled(cache_cfg, cache_hist.layer)
    /\ cache_ret.op = "get"
    /\ cache_ret.put # <<>>
    /\ cache_ret.put[1].at = cache_ret.at
    /\ cache_ret.value = <<>>

\* C12: cleanup_expired removes exactly the expired entries of the three
\* layers and returns how many they were; a second cleanup_expired, with no
\* time elapsed and no other call in between, returns 0 and changes nothing.
C12_CleanupExpiredIsIdempotent ==
    [][(cache_ret'.op = "cleanup_expired" /\ cache_hist'.n = cache_hist.n + 1) =>
        LET Live(e) == ~(now - e.created_at > cache_cfg.ttl)
            before == SumSet([l \in CacheLayers |-> Len(cache[l])], CacheLayers)
            after == SumSet([l \in CacheLayers |-> Len(cache'[l])], CacheLayers)
        IN /\ \A l \in CacheLayers : cache'[l] = SelectSeq(cache[l], Live)
           /\ cache_ret'.value = <<before - after>>
           /\ (cache_ret.op = "cleanup_expired" /\ cache_ret.at = now) =>
                /\ cache_ret'.value = <<0>>
                /\ UNCHANGED <<cache, cache_stats>>]_vars

\* a cleanup_expired that removed an entry
C12_Witness ==
    /\ cache_ret.op = "cleanup_expired"
    /\ cache_ret.value = <<1>>
    /\ cache[cache_hist.layer] = <<>>

\* the keys a layer holds
KeysOf(s) == {s[i].key : i \in DOMAIN s}

RerankThreshold == 700
\* engine.rs:157 / 158  max_candidates per mode
CandidatesGeneral == 100
CandidatesResearch == 200

\* the queries: 0 is the blank one
RetrQueries == {0, 1}

\* the embedding the remote service returns for a query
QueryEmbedding(query) == IF query = 1 THEN <<3, 4>> ELSE <<4, 3>>

\* the two documents of the corpus and their chunks
RetrBatches == {1, 2}

BatchIds(b) == IF b = 1 THEN 1..2 ELSE 3..24

\* a stored chunk: its vector, the words of its content, and the scores the
\* remote reranker gives its sub-chunks (a chunk of more than 250 tokens has
\* several)
CorpusChunk(i) ==
    [id |-> i,
     document_id |-> IF i <= 2 THEN 1 ELSE 2,
     embedding |-> Some(IF i = 2 THEN <<4, 3>> ELSE <<3, 4>>),
     words |-> IF i = 3 THEN {1} ELSE {i},
     subs |-> IF i = 1 THEN <<750, 900>>
              ELSE IF i = 2 THEN <<600>>
              ELSE <<700 + 10 * (i % 4)>>]

\* the store that holds the batches bs, and the order its shadow yields
StoreOf(bs) == [i \in UNION {BatchIds(b) : b \in bs} |-> CorpusChunk(i)]

OrderOf(bs) ==
    (IF 1 \in bs THEN <<1, 2>> ELSE <<>>)
        \o (IF 2 \in bs THEN [i \in 1..22 |-> i + 2] ELSE <<>>)

\* ---- RetrievalResult::new
RetrievalResultNew(chunk, similarity_score) ==
    [chunk |-> chunk, similarity_score |-> similarity_score,
     rerank_score |-> NoEmbedding, final_score |-> similarity_score]

SetRerankScore_Swapped(r, rerank_score) ==
    [r EXCEPT !.rerank_score = Some(rerank_score),
              !.final_score = (7 * r.similarity_score + 3 * rerank_score) \div 10]

\* ---- RetrievalResult::set_rerank_score
SetRerankScore(r, rerank_score) ==
    [r EXCEPT !.rerank_score = Some(rerank_score),
              !.final_score = (3 * r.similarity_score + 7 * rerank_score) \div 10]

\* ---- RerankingClient::calculate_diversity >= 0.8, on the word sets
IsDiverse(words1, words2) ==
    LET intersection == Cardinality(words1 \cap words2)
        union == Cardinality(words1 \cup words2)
    IN union = 0 \/ 5 * intersection <= union

RECURSIVE EnsureDiversity(_, _)
\* ---- RerankingClient::ensure_diversity: the results selected so far and
\* those still to look at (the first result is always selected)
EnsureDiversity(diverse_results, results) ==
    IF results = <<>> THEN diverse_results
    ELSE LET result == Head(results)
             is_diverse == \A j \in DOMAIN diverse_results :
                              IsDiverse(result.chunk.words, diverse_results[j].chunk.words)
         IN EnsureDiversity(IF is_diverse THEN Append(diverse_results, result)
                                          ELSE diverse_results,
                            Tail(results))

\* ---- retrieve_context, lines 161-177: the search on the shadow ix (yielding
\* its entries in `order`) and the fetch of the chunks from the store d
SimilarChunks(query, ix, order, mode) ==
    IF ix = EmptyMap THEN <<>>
    ELSE ParallelSimilaritySearch(QueryEmbedding(query), ix, order,
            IF mode = "general" THEN CandidatesGeneral ELSE CandidatesResearch,
            NoEmbedding)

FetchChunks(similar, d) ==
    LET Found(p) == p[1] \in DOMAIN d
        found == SelectSeq(similar, Found)
    IN [i \in 1..Len(found) |-> RetrievalResultNew(d[found[i][1]], 10 * found[i][2])]

\* ---- retrieve_context, lines 179-211: sub-chunks, reranking, threshold,
\* sort, truncate, diversity
RerankAndSelect(chunks, mode) ==
    LET \* create_sub_chunks: one pair <<parent, score>> per sub-chunk
        slots == [k \in 1..(2 * Len(chunks)) |->
                    LET c == chunks[(k + 1) \div 2].chunk
                        s == 2 - (k % 2)
                    IN IF s <= Len(c.subs) THEN <<c.id, c.subs[s]>> ELSE <<0, 0>>]
        \* rerank_sub_chunks: filter by threshold, sort by score
        Passes(p) == p[1] # 0 /\ p[2] >= RerankThreshold
        reranked == SortDesc(SelectSeq(slots, Passes))
        \* the first sub-chunk of a parent sets its score (seen_chunks)
        First(p) == \A j \in 1..(p[1] - 1) : reranked[j][1] # reranked[p[1]][1]
        firsts == SelectSeq([k \in 1..Len(reranked) |-> <<k, reranked[k]>>], First)
        scored == [k \in 1..Len(firsts) |->
                    LET parent == CHOOSE i \in DOMAIN chunks :
                                        chunks[i].chunk.id = firsts[k][2][1]
                    IN SetRerankScore(chunks[parent], firsts[k][2][2])]
        MeetsThreshold(r) == r.final_score >= RerankThreshold
        final_results == SelectSeq(scored, MeetsThreshold)
        sorted == SortDesc([i \in 1..Len(final_results) |->
                                <<final_results[i], final_results[i].final_score>>])
        truncated == Truncate([i \in 1..Len(sorted) |-> sorted[i][1]], MaxChunks(mode))
    IN EnsureDiversity(<<>>, truncated)

\* what retrieve_context computes on the store that holds the batches bs
RetrievalOf(bs, query, mode) ==
    RerankAndSelect(
        FetchChunks(SimilarChunks(query, LoadIndex(StoreOf(bs)), OrderOf(bs), mode),
                    StoreOf(bs)),
        mode)

IdleCall ==
    [pc |-> "idle", query |-> 0, mode |-> "general", similar |-> <<>>,
     chunks |-> <<>>, status |-> "none", result |-> <<>>, hit |-> FALSE,
     popped |-> <<>>, seen |-> {}]

\* the batches the store holds
Stored == {b \in RetrBatches : BatchIds(b) \subseteq DOMAIN db}

RetrReturned(t, status, result) ==
    [retr EXCEPT !.call[t].pc = "returned", !.call[t].status = status,
                 !.call[t].result = result, !.call[t].similar = <<>>,
                 !.call[t].chunks = <<>>]

\* ---- retrieve_context, lines 140-150: the empty check and the lookup
\* (RagCache::get_retrieval)
RetrieveContextCall(t, query, mode) ==
    /\ retr.call[t].pc \in {"idle", "returned"}
    /\ retr.n < MaxRetrievals
    /\ LET started == [retr EXCEPT !.n = @ + 1,
                         !.call[t] = [IdleCall EXCEPT !.query = query, !.mode = mode,
                                                      !.seen = {Stored}]]
           layer == cache["retrieval"]
       IN IF query = 0
            THEN /\ retr' = [started EXCEPT !.call[t].pc = "returned",
                                            !.call[t].status = "invalid_input"]
                 /\ UNCHANGED <<cache, cache_stats>>
          ELSE IF ~LayerEnabled(cache_cfg, "retrieval")
            THEN /\ retr' = [started EXCEPT !.call[t].pc = "embed"]
                 /\ UNCHANGED <<cache, cache_stats>>
          ELSE IF ~LruContains(layer, query)
            THEN /\ retr' = [started EXCEPT !.call[t].pc = "embed"]
                 /\ cache_stats' = [cache_stats EXCEPT !.misses["retrieval"] = @ + 1]
                 /\ UNCHANGED cache
          ELSE LET item == LruItem(layer, query)
               IN IF IsExpired(item.created_at, cache_cfg.ttl, now)
                    THEN /\ retr' = [started EXCEPT !.call[t].pc = "embed",
                                        !.call[t].popped = <<[item |-> item, at |-> now]>>]
                         /\ cache' = [cache EXCEPT !["retrieval"] = LruPop(@, query)]
                         /\ cache_stats' =
                                [cache_stats EXCEPT !.misses["retrieval"] = @ + 1]
                    ELSE /\ retr' = [started EXCEPT !.call[t].pc = "returned",
                                        !.call[t].status = "ok", !.call[t].hit = TRUE,
                                        !.call[t].result = item.value]
                         /\ cache' = [cache EXCEPT !["retrieval"] = LruGet(@, query)]
                         /\ cache_stats' =
                                [cache_stats EXCEPT !.hits["retrieval"] = @ + 1]
    /\ UNCHANGED <<engineVars, storeVars, searchVars, fcall, retry, ingest, cache_cfg, now,
                   cache_ret, cache_hist>>

\* ---- line 153: embed_single
RetrieveEmbed(t) ==
    /\ retr.call[t].pc = "embed"
    /\ \/ retr' = [retr EXCEPT !.call[t].pc = "search"]
       \/ retr' = RetrReturned(t, "embedding_error", <<>>)
    /\ UNCHANGED <<engineVars, storeVars, searchVars, fcall, retry, ingest, cacheVars>>

\* ---- lines 161-166: search_similar; nothing found returns at once
RetrieveSearch(t) ==
    /\ retr.call[t].pc = "search"
    /\ LET similar == SimilarChunks(retr.call[t].query, index, iter_order,
                                    retr.call[t].mode)
       IN IF similar = <<>>
            THEN retr' = RetrReturned(t, "ok", <<>>)
            ELSE retr' = [retr EXCEPT !.call[t].pc = "fetch",
                                      !.call[t].similar = similar]
    /\ UNCHANGED <<engineVars, storeVars, searchVars, fcall, retry, ingest, cacheVars>>

\* ---- lines 170-177: get_chunk for every pair found
RetrieveFetch(t) ==
    /\ retr.call[t].pc = "fetch"
    /\ \/ retr' = [retr EXCEPT !.call[t].pc = "rerank",
                               !.call[t].chunks = FetchChunks(retr.call[t].similar, db)]
       \/ /\ CanFail(backend)
          /\ retr' = RetrReturned(t, "store_error", <<>>)
    /\ UNCHANGED <<engineVars, storeVars, searchVars, fcall, retry, ingest, cacheVars>>

\* ---- lines 179-216: reranking, selection, RagCache::cache_retrieval
RetrieveRerank(t) ==
    /\ retr.call[t].pc = "rerank"
    /\ \/ /\ retr.call[t].chunks # <<>>
          /\ retr' = RetrReturned(t, "reranking_error", <<>>)
          /\ UNCHANGED <<cache, cache_stats>>
       \/ LET c == retr.call[t]
              diverse_results == RerankAndSelect(c.chunks, c.mode)
              item == [key |-> c.query, value |-> diverse_results, created_at |-> now]
          IN /\ retr' = RetrReturned(t, "ok", diverse_results)
             /\ IF LayerEnabled(cache_cfg, "retrieval")
                  THEN /\ cache' = [cache EXCEPT
                                !["retrieval"] = LruPut(@, item, Capacity(cache_cfg))]
                       /\ cache_stats' =
                            IF LruContains(cache["retrieval"], c.query)
                                THEN [cache_stats EXCEPT !.evictions = @ + 1]
                                ELSE cache_stats
                  ELSE UNCHANGED <<cache, cache_stats>>
    /\ UNCHANGED <<engineVars, storeVars, searchVars, fcall, retry, ingest, cache_cfg, now,
                   cache_ret, cache_hist>>

\* the calls in progress have seen the store hold the batches bs
Seeing(bs) ==
    [retr EXCEPT !.call = [t \in Tasks |->
        IF retr.call[t].pc \in {"idle", "returned"} THEN retr.call[t]
        ELSE [retr.call[t] EXCEPT !.seen = @ \cup {bs}]]]

\* ---- RagEngine::ingest_document: the chunks of a document reach the store
\* and its shadow, the document the metadata map.  A document gets a fresh
\* id, so one that was deleted does not come back.
RetrIngest(b) ==
    /\ b \notin Stored
    /\ b \notin retr.gone
    /\ db' = StoreOf(Stored \cup {b})
    /\ index' = LoadIndex(db')
    /\ iter_order' = OrderOf(Stored \cup {b})
    /\ documents' = MapInsert(documents, b, [chunk_ids |-> BatchIds(b)])
    /\ retr' = Seeing(Stored \cup {b})
    /\ UNCHANGED <<fcall, token_count, task, rollbacks, calls, stats, backend, store_ret,
                   searchVars, retry, ingest, cacheVars>>

\* ---- RagEngine::delete_document
RetrDelete(b) ==
    /\ b \in Stored
    /\ db' = StoreOf(Stored \ {b})
    /\ index' = LoadIndex(db')
    /\ iter_order' = OrderOf(Stored \ {b})
    /\ documents' = MapRemove(documents, b)
    /\ retr' = [Seeing(Stored \ {b}) EXCEPT !.gone = @ \cup {b}]
    /\ UNCHANGED <<fcall, token_count, task, rollbacks, calls, stats, backend, store_ret,
                   searchVars, retry, ingest, cacheVars>>

\* the clock of the cache, counted from its first write
RetrTick ==
    /\ now < MaxTime
    /\ cache["retrieval"] # <<>>
    /\ now' = now + 1
    /\ UNCHANGED <<engineVars, storeVars, searchVars, clientVars, cache, cache_stats,
                   cache_cfg, cache_ret, cache_hist>>

RetrStoreInit ==
    /\ token_count = 0
    /\ task = [t \in Tasks |-> IdleTask]
    /\ rollbacks = EmptyMap
    /\ calls = 0
    /\ stats = [document_count |-> 0, chunk_count |-> 0, embedding_count |-> 0]
    /\ backend = "sled"
    /\ store_ret = None
    /\ \E bs \in SUBSET RetrBatches :
            /\ db = StoreOf(bs)
            /\ index = LoadIndex(db)
            /\ iter_order = OrderOf(bs)
            /\ documents = [b \in bs |-> [chunk_ids |-> BatchIds(b)]]
    /\ SearchIdle
    /\ retry = None
    /\ ingest = None
    /\ fcall = None
    /\ cache = [l \in CacheLayers |-> <<>>]
    /\ cache_stats = NoStats
    /\ cache_cfg \in {c \in CacheConfigs : /\ c.enabled /\ c.ttl = 1 /\ c.max_size = 2
                                           /\ c.cache_embeddings /\ c.cache_reranking}
    /\ now = 0
    /\ cache_ret = None
    /\ cache_hist = None

RetrInit ==
    /\ RetrStoreInit
    /\ retr = [n |-> 0, gone |-> {}, call |-> [t \in Tasks |-> IdleCall]]

RetrNext ==
    \/ \E t \in Tasks, query \in RetrQueries, mode \in Modes :
            RetrieveContextCall(t, query, mode)
    \/ \E t \in Tasks : RetrieveEmbed(t)
    \/ \E t \in Tasks : RetrieveSearch(t)
    \/ \E t \in Tasks : RetrieveFetch(t)
    \/ \E t \in Tasks : RetrieveRerank(t)
    \/ RetrTick

SpecRetrieve == RetrInit /\ [][RetrNext]_vars

\* SpecConcurrent: two retrieve_context calls of the same query that have both
\* missed the empty cache, run while documents are ingested and deleted.
ConcurrentInit ==
    /\ RetrStoreInit
    /\ LayerEnabled(cache_cfg, "retrieval")
    /\ \E m \in [Tasks -> Modes] :
            retr = [n |-> 2, gone |-> {},
                    call |-> [t \in Tasks |->
                        [IdleCall EXCEPT !.pc = "embed", !.query = 1, !.mode = m[t],
                                         !.seen = {Stored}]]]

ConcurrentNext ==
    \/ \E t \in Tasks : RetrieveEmbed(t)
    \/ \E t \in Tasks : RetrieveSearch(t)
    \/ \E t \in Tasks : RetrieveFetch(t)
    \/ \E t \in Tasks : RetrieveRerank(t)
    \/ \E b \in RetrBatches : RetrIngest(b)
    \/ \E b \in RetrBatches : RetrDelete(b)

SpecConcurrent == ConcurrentInit /\ [][ConcurrentNext]_vars

\* a result list is in non-increasing final_score order
IsByFinalScore(result) ==
    \A i \in 1..(Len(result) - 1) : result[i].final_score >= result[i + 1].final_score

\* C14: every retrieve_context(query, mode) that returns Ok returns at most
\* mode.max_chunks() results, in non-increasing final_score order, whatever
\* was retrieved before.
C14_AtMostMaxChunksInOrder ==
    \A t \in Tasks :
        (retr.call[t].pc = "returned" /\ retr.call[t].status = "ok")
            => /\ Len(retr.call[t].result) <= MaxChunks(retr.call[t].mode)
               /\ IsByFinalScore(retr.call[t].result)

\* C15: every RetrievalResult the engine holds, returns or caches has
\* final_score = 0.3 * similarity_score + 0.7 * rerank_score when its
\* rerank_score is set and final_score = similarity_score when it is not
\* (scores in thousandths, so ten times the final score is compared).
C15_FinalScoreIsWeightedSum ==
    LET Weighted(r) ==
            IF r.rerank_score = NoEmbedding
                THEN r.final_score = r.similarity_score
                ELSE 10 * r.final_score = 3 * r.similarity_score + 7 * r.rerank_score[1]
        AllWeighted(results) == \A i \in DOMAIN results : Weighted(results[i])
    IN /\ \A t \in Tasks : /\ AllWeighted(retr.call[t].chunks)
                           /\ AllWeighted(retr.call[t].result)
       /\ \A i \in DOMAIN cache["retrieval"] : AllWeighted(cache["retrieval"][i].value)

\* one call holds fetched results without a rerank score while the other has
\* returned reranked ones whose final score differs from the similarity
C15_Witness ==
    \E t, u \in Tasks :
        /\ retr.call[t].pc = "rerank"
        /\ retr.call[t].chunks # <<>>
        /\ retr.call[t].chunks[1].rerank_score = NoEmbedding
        /\ retr.call[u].status = "ok"
        /\ ~retr.call[u].hit
        /\ retr.call[u].result # <<>>
        /\ retr.call[u].result[1].rerank_score # NoEmbedding
        /\ retr.call[u].result[1].final_score # retr.call[u].result[1].similarity_score

\* the outcomes of retrieve_context that are errors
RetrErrors == {"invalid_input", "embedding_error", "store_error", "reranking_error"}

\* C16 as stated: a retrieve_context call that has returned an error has left
\* the entries of the cache as they were, so its lookup removed nothing.
C16_ErrorLeavesCacheUnchanged ==
    \A t \in Tasks :
        retr.call[t].status \in RetrErrors => retr.call[t].popped = <<>>

\* C16, amended: a step of a retrieve_context call that does not return Ok
\* adds no entry to any cache layer and leaves the document metadata map
\* unchanged; the only entry it can remove is the entry of its own query in
\* the retrieval layer, and only when that entry is older than the ttl (the
\* lookup at the head of the call drops it).
C16_ErrorAddsNothingDropsOnlyExpired ==
    [][\A t \in Tasks :
        (retr'.call[t] # retr.call[t] /\ retr'.call[t].status # "ok")
            => /\ documents' = documents
               /\ \A l \in CacheLayers \ {"retrieval"} : cache'[l] = cache[l]
               /\ \/ cache'["retrieval"] = cache["retrieval"]
                  \/ \E i \in DOMAIN cache["retrieval"] :
                        LET e == cache["retrieval"][i]
                            Other(x) == x # e
                        IN /\ e.key = retr'.call[t].query
                           /\ now - e.created_at > cache_cfg.ttl
                           /\ cache'["retrieval"] = SelectSeq(cache["retrieval"], Other)]_vars

\* a call whose lookup dropped the expired entry of its query has returned an
\* error, and the entry is gone
C16_Witness ==
    \E t \in Tasks :
        /\ retr.call[t].status \in RetrErrors
        /\ retr.call[t].popped # <<>>
        /\ cache["retrieval"] = <<>>

\* both calls of the concurrent pair have returned Ok
BothReturned ==
    \A t \in Tasks : retr.call[t].pc = "returned" /\ retr.call[t].status = "ok"

\* the result of caller t is what retrieve_context computes on a content the
\* store had during the call
CorrectForSeenStore(t) ==
    \E bs \in retr.call[t].seen :
        retr.call[t].result = RetrievalOf(bs, retr.call[t].query, retr.call[t].mode)

\* the retrieval layer holds exactly one entry, the result of one of the calls
OneEntryOfOneCall ==
    /\ Len(cache["retrieval"]) = 1
    /\ cache["retrieval"][1].key = 1
    /\ \E t \in Tasks : cache["retrieval"][1].value = retr.call[t].result

IngestInputs ==
    {[id |-> i, document_id |-> i[1], len |-> 4, embedding |-> e] :
        i \in StoreIds, e \in {NoEmbedding, Some(<<3, 4>>)}}

\* the ids of the chunks of a batch that have an embedding
Embedded(chunks) == {chunks[i].id : i \in {j \in DOMAIN chunks : chunks[j].embedding # NoEmbedding}}

\* ---- store_chunks, the update of the shadow and the return
IngestIndexed(chunks) ==
    /\ index' = StoreChunksIndex(index, chunks)
    /\ iter_order' \in Orders(DOMAIN index')
    /\ ingest' = [ingest EXCEPT !.pc = "idle", !.chunks = <<>>, !.n = @ + 1,
                                !.returned = @ \cup Embedded(chunks)]

\* ---- store_chunks, up to the write of the batch (apply_batch)
IngestStoreChunks(chunks) ==
    /\ ingest.pc = "idle"
    /\ ingest.n < MaxCalls
    /\ chunks # <<>>
    /\ \/ /\ CanFail(backend)
          /\ ingest' = [ingest EXCEPT !.n = @ + 1]
          /\ UNCHANGED <<db, index, iter_order>>
       \/ /\ backend = "sled"
          /\ db' = StoreChunksDb(db, chunks)
          /\ ingest' = [ingest EXCEPT !.pc = "index", !.chunks = chunks]
          /\ UNCHANGED <<index, iter_order>>
       \/ /\ backend = "faiss"
          /\ db' = StoreChunksDb(db, chunks)
          /\ IngestIndexed(chunks)
    /\ UNCHANGED <<engineVars, backend, store_ret, searchVars, fcall, retr, retry, cacheVars>>

\* ---- store_chunks of the persistent backend, from the write lock on
IngestUpdateIndex ==
    /\ ingest.pc = "index"
    /\ IngestIndexed(ingest.chunks)
    /\ UNCHANGED <<engineVars, backend, db, store_ret, searchVars, fcall, retr, retry, cacheVars>>

\* ---- delete_chunks, by another caller
IngestDeleteChunks(ids) ==
    /\ ids # {}
    /\ \E i \in ids : i \in DOMAIN db \/ i \in DOMAIN index
    /\ db' = DeleteFrom(db, ids)
    /\ index' = DeleteFrom(index, ids)
    /\ iter_order' \in Orders(DOMAIN index')
    /\ ingest' = [ingest EXCEPT !.returned = @ \ ids]
    /\ UNCHANGED <<engineVars, backend, store_ret, searchVars, fcall, retr, retry, cacheVars>>

IngestInit ==
    /\ EngineIdle
    /\ backend \in {"sled", "faiss"}
    /\ StoreIdle
    /\ SearchIdle
    /\ retr = None
    /\ retry = None
    /\ fcall = None
    /\ ingest = [pc |-> "idle", chunks |-> <<>>, returned |-> {}, n |-> 0]
    /\ CacheIdle

IngestNext ==
    \/ \E chunks \in SeqsUpTo(IngestInputs, MaxBatch) : IngestStoreChunks(chunks)
    \/ IngestUpdateIndex
    \/ \E ids \in SUBSET StoreIds : IngestDeleteChunks(ids)
    \/ \E query \in QueryVectors, top_k \in 0..MaxK : SearchSimilarCall(query, top_k)

SpecIngest == IngestInit /\ [][IngestNext]_vars

\* C18: a search_similar call scores every embedded chunk of every batch
\* whose store_chunks call returned Ok before it started and that has not
\* been deleted since: they are all in the shadow it reads, and in its result
\* when top_k does not cut the result.
C18_SearchSeesCompletedBatches ==
    [][(search.op = "none" /\ search'.op = "search_similar")
        => /\ ingest.returned \subseteq DOMAIN index
           /\ search'.k >= Cardinality(DOMAIN index)
                => ingest.returned \subseteq
                        {search'.result[i][1] : i \in DOMAIN search'.result}]_vars

\* a search made while a store_chunks call is between its write and its
\* shadow update has returned the chunk of an earlier batch
C18_Witness ==
    /\ search.op = "search_similar"
    /\ ingest.pc = "index"
    /\ ingest.returned # {}
    /\ ingest.returned \subseteq {search.result[i][1] : i \in DOMAIN search.result}

(***************************************************************************)
(* SpecRetry: embed_batch_internal (and rerank_batch_internal, the same    *)
(* loop) sending one slice of inputs to the remote service.                *)
(*   retry = [client, max_retries, attempt, pc, requests, sleeps, errors,  *)
(*     status, error, response]: the loop variable, the requests sent, the *)
(*     backoff sleeps made, the error of every failed attempt in order,    *)
(*     and what the call returned.                                         *)
(***************************************************************************)
RemoteErrors == {"timeout", "http", "parse"}

InRange_Exclusive(attempt, max_retries) == attempt < max_retries

\* the range of `for attempt in 0..=max_retries`
InRange(attempt, max_retries) == attempt <= max_retries

SleepsAfter_Always(attempt, max_retries) == TRUE

\* `if attempt < self.config.max_retries`: the backoff
SleepsAfter(attempt, max_retries) == attempt < max_retries

\* the loop goes to its next iteration, or ends with the last error
NextAttempt(r) ==
    IF InRange(r.attempt + 1, r.max_retries)
        THEN [r EXCEPT !.attempt = @ + 1, !.pc = "request"]
        ELSE [r EXCEPT !.attempt = @ + 1, !.pc = "returned", !.status = "err",
                       !.error = r.errors[Len(r.errors)]]

\* ---- make_embedding_request / make_reranking_request and the match on it
RetryRequest ==
    /\ retry.pc = "request"
    /\ \/ retry' = [retry EXCEPT !.requests = @ + 1, !.pc = "returned",
                                 !.status = "ok", !.response = retry.requests + 1]
       \/ \E e \in RemoteErrors :
            LET failed == [retry EXCEPT !.requests = @ + 1, !.errors = Append(@, e)]
            IN retry' = IF SleepsAfter(retry.attempt, retry.max_retries)
                            THEN [failed EXCEPT !.pc = "sleep"]
                            ELSE NextAttempt(failed)
    /\ UNCHANGED <<engineVars, storeVars, searchVars, fcall, retr, ingest, cacheVars>>

\* ---- tokio::time::sleep(delay)
RetrySleep ==
    /\ retry.pc = "sleep"
    /\ retry' = NextAttempt([retry EXCEPT !.sleeps = @ + 1])
    /\ UNCHANGED <<engineVars, storeVars, searchVars, fcall, retr, ingest, cacheVars>>

RetryInit ==
    /\ EngineIdle
    /\ backend = "sled"
    /\ StoreIdle
    /\ SearchIdle
    /\ retr = None
    /\ ingest = None
    /\ fcall = None
    /\ \E client \in {"embedding", "reranking"}, max_retries \in 0..MaxRetries :
            retry = [client |-> client, max_retries |-> max_retries, attempt |-> 0,
                     pc |-> "request", requests |-> 0, sleeps |-> 0, errors |-> <<>>,
                     status |-> "none", error |-> None, response |-> 0]
    /\ CacheIdle

RetryNext == RetryRequest \/ RetrySleep

SpecRetry == RetryInit /\ [][RetryNext]_vars

\* C19 as stated: for one slice, a client sends at most max_retries requests.
C19_AtMostMaxRetriesRequests == retry.requests <= retry.max_retries

\* C19, amended: for one slice, a client sends at most max_retries + 1
\* requests, one first attempt and max_retries retries, and it gives up only
\* when it has sent them all.
C19_AtMostMaxRetriesPlusOne ==
    /\ retry.requests <= retry.max_retries + 1
    /\ retry.status = "err" => retry.requests = retry.max_retries + 1

\* a client configured with two retries has given up after three requests
C19_Witness ==
    /\ retry.status = "err"
    /\ retry.max_retries = 2
    /\ retry.requests = 3

\* C20: an error is returned only after every allowed attempt has failed, and
\* it is the error of the last attempt; a successful attempt ends the loop
\* with its response, the requests before it having failed; a backoff sleep
\* is made only after a failed attempt that another attempt follows, never
\* after the last one.
C20_LastErrorAfterAllAttempts ==
    /\ [](retry.status = "err" =>
            /\ Len(retry.errors) = retry.max_retries + 1
            /\ retry.requests = Len(retry.errors)
            /\ retry.error = retry.errors[Len(retry.errors)]
            /\ retry.sleeps = retry.requests - 1)
    /\ [](retry.status = "ok" =>
            /\ retry.response = retry.requests
            /\ Len(retry.errors) = retry.requests - 1
            /\ retry.sleeps = retry.requests - 1)
    /\ [](retry.pc = "request" => retry.sleeps = retry.requests)
    /\ [][retry.status # "none" => retry' = retry]_vars
    /\ [][retry'.sleeps # retry.sleeps =>
            /\ retry'.sleeps = retry.sleeps + 1
            /\ retry.requests = Len(retry.errors)
            /\ retry'.pc = "request"]_vars

\* the call has failed with the error of its third attempt, which differs
\* from the errors before it, after two sleeps
C20_Witness ==
    /\ retry.status = "err"
    /\ retry.errors = <<"timeout", "http", "parse">>
    /\ retry.error = "parse"
    /\ retry.sleeps = 2

\* ---------------------------------------------------------------------
\* EmbeddingClient::embed_chunks (embedder.rs 224-243), as the engine calls
\* it in EngineIngestEmbed: the chunks are zipped with the vectors that
\* embed_batch returned and Ok(()) follows, whatever the number of vectors.
\* Specification: Spec.

\* C21: embed_chunks returns success only when every input chunk has
\* received its vector (it returns an error when the service returned a
\* different number of vectors): an ingest that is past embed_chunks holds
\* only chunks with a vector.
C21_OkOnlyWhenEveryChunkEmbedded ==
    \A t \in Tasks :
        (task[t].op = "ingest" /\ task[t].pc = "store")
        => \A i \in DOMAIN task[t].chunks :
                task[t].chunks[i].embedding # NoEmbedding

\* ---------------------------------------------------------------------
\* RerankingClient::ensure_diversity (reranker.rs 304-346) on its own: the
\* results are drawn with every content over a small vocabulary, a content
\* being the set of its words (calculate_diversity splits on whitespace and
\* collects the words into a HashSet).  A diversity is the fraction
\* <<numerator, denominator>>; thresholds are in tenths.
\* Specification: SpecDiversity.

MaxResults == 3
MaxWords == 3

DiversityThresholds == {3, 5, 8}

CalculateDiversity_Similarity(words1, words2) ==
    LET intersection == Cardinality(words1 \cap words2)
        union == Cardinality(words1 \cup words2)
    IN IF union = 0 THEN <<1, 1>> ELSE <<intersection, union>>

\* ---- calculate_diversity: the Jaccard distance, 1.0 when both are empty
CalculateDiversity(words1, words2) ==
    LET intersection == Cardinality(words1 \cap words2)
        union == Cardinality(words1 \cup words2)
    IN IF union = 0 THEN <<1, 1>> ELSE <<union - intersection, union>>

\* ---- line 333: diversity < diversity_threshold
BelowThreshold(diversity, diversity_threshold) ==
    10 * diversity[1] < diversity_threshold * diversity[2]

RECURSIVE SelectDiverse(_, _, _)
\* ---- lines 328-343: the loop over results.iter().skip(1)
SelectDiverse(diverse_results, results, diversity_threshold) ==
    IF results = <<>> THEN diverse_results
    ELSE LET result == Head(results)
             is_diverse ==
                \A j \in DOMAIN diverse_results :
                    ~BelowThreshold(CalculateDiversity(result.chunk.words,
                                        diverse_results[j].chunk.words),
                                    diversity_threshold)
         IN SelectDiverse(IF is_diverse THEN Append(diverse_results, result)
                                        ELSE diverse_results,
                          Tail(results), diversity_threshold)

\* ---- ensure_diversity with any threshold
EnsureDiversityOf(results, diversity_threshold) ==
    IF results = <<>> THEN <<>>
    ELSE SelectDiverse(<<Head(results)>>, Tail(results), diversity_threshold)

EnsureDiversityCall ==
    /\ fcall.pc = "call"
    /\ fcall' = [fcall EXCEPT !.pc = "returned",
                    !.ret = EnsureDiversityOf(fcall.results, fcall.diversity_threshold)]
    /\ UNCHANGED <<engineVars, storeVars, searchVars, retr, retry, ingest, cacheVars>>

DiversityInit ==
    /\ EngineIdle
    /\ backend = "sled"
    /\ StoreIdle
    /\ SearchIdle
    /\ retr = None
    /\ retry = None
    /\ ingest = None
    /\ CacheIdle
    /\ \E n \in 0..MaxResults, diversity_threshold \in DiversityThresholds :
         \E texts \in [1..n -> SUBSET (1..MaxWords)] :
            fcall = [pc |-> "call",
                     results |-> [k \in 1..n |->
                                    [chunk |-> [id |-> k, words |-> texts[k]]]],
                     diversity_threshold |-> diversity_threshold,
                     ret |-> <<>>]

DiversityNext == EnsureDiversityCall

SpecDiversity == DiversityInit /\ [][DiversityNext]_vars

\* the Jaccard distance of two word sets is below th tenths
JaccardBelow(words1, words2, th) ==
    /\ words1 \cup words2 # {}
    /\ 10 * (Cardinality(words1 \cup words2) - Cardinality(words1 \cap words2))
            < th * Cardinality(words1 \cup words2)

\* C22: ensure_diversity returns a subsequence of its input in the original
\* order that starts with the first input result; every result of it has
\* Jaccard distance at least the threshold to every result selected before
\* it, and every omitted input has distance below the threshold to some
\* selected result that precedes it in the input.
C22_DiverseSubsequence ==
    fcall.pc = "returned" =>
        LET in == fcall.results
            out == fcall.ret
            th == fcall.diversity_threshold
            pos(j) == out[j].chunk.id
        IN /\ \A j \in DOMAIN out : pos(j) \in DOMAIN in /\ out[j] = in[pos(j)]
           /\ \A j, k \in DOMAIN out : j < k => pos(j) < pos(k)
           /\ in = <<>> => out = <<>>
           /\ in # <<>> => out # <<>> /\ out[1] = in[1]
           /\ \A j, k \in DOMAIN out :
                j < k => ~JaccardBelow(out[k].chunk.words, out[j].chunk.words, th)
           /\ \A i \in DOMAIN in :
                (\A j \in DOMAIN out : pos(j) # i)
                => \E j \in DOMAIN out :
                        /\ pos(j) < i
                        /\ JaccardBelow(in[i].chunk.words, out[j].chunk.words, th)

\* three results at threshold 0.5: the second shares two of its three words
\* with the first (distance 1/3) and is omitted, the third shares none with
\* the first and is kept
C22_Witness ==
    /\ fcall.pc = "returned"
    /\ fcall.diversity_threshold = 5
    /\ Len(fcall.results) = 3
    /\ fcall.results[1].chunk.words = {1, 2}
    /\ fcall.results[2].chunk.words = {1, 2, 3}
    /\ fcall.results[3].chunk.words = {3}
    /\ Len(fcall.ret) = 2
    /\ fcall.ret[2].chunk.id = 3

\* ---------------------------------------------------------------------
\* SmartChunker (chunker.rs) on its own.  A text is the sequence of its
\* sentences as unicode_sentences yields them, a sentence being
\*   [len, tokens, par]
\* with len its byte length, tokens what count_tokens gives for it and par
\* the paragraph of the document it comes from (0 for a sentence of
\* whitespace only).  A paragraph of the document is one sentence, as the
\* paragraphs of create_test_content are; count_tokens is additive over the
\* sentences (the Whitespace pre-tokenizer never joins words across blanks).
\* A configuration is the ChunkingConfig with one more field,
\* overflow_checks, that tells how the build treats an overflowing usize
\* subtraction: a panic when TRUE, a wrapped value when FALSE.
\* Specification: SpecChunker.

MaxParagraphs == 22

\* ---- chunk_document, line 94; chunk_paragraphs_parallel, lines 169, 185
ParallelChunkSize == 1000
ParallelParagraphs == 10
BatchSize == 20
BatchOffsetUnit == 100
\* ---- create_sub_chunks, lines 351-352
SubChunkMin == 150
SubChunkMax == 250
\* usize, narrowed to 20 bits: the offsets of the model stay below it
UsizeModulus == 1048576

ByteLen(text) == SumSeq([i \in DOMAIN text |-> text[i].len])

\* ---- SmartChunker::count_tokens
CountTokens(text) == SumSeq([i \in DOMAIN text |-> text[i].tokens])

\* str::trim, then what the text says: its sentences that hold words
Trimmed(text) ==
    LET said == SelectSeq(text, LAMBDA sentence : sentence.tokens > 0)
    IN [i \in DOMAIN said |-> [par |-> said[i].par, tokens |-> said[i].tokens]]

\* ---- SmartChunker::create_chunk
CreateChunk(content, start_offset, end_offset, tokens) ==
    [content |-> content, start_offset |-> start_offset,
     end_offset |-> end_offset, token_count |-> tokens]

RECURSIVE TakeOverlap(_, _, _, _)
\* ---- get_overlap_content, lines 316-329: how many sentences the loop
\* over sentences.iter().rev() takes, k of them being taken already
TakeOverlap(sentences, k, overlap_tokens, overlap) ==
    IF k = Len(sentences) THEN k
    ELSE LET sentence_tokens == sentences[Len(sentences) - k].tokens
         IN IF overlap_tokens + sentence_tokens > overlap THEN k
            ELSE TakeOverlap(sentences, k + 1, overlap_tokens + sentence_tokens,
                             overlap)

\* ---- SmartChunker::get_overlap_content: the sentences taken, joined by
\* one blank each (the blank follows a line feed and so opens the sentence
\* after it)
GetOverlapContent(content, overlap) ==
    IF overlap = 0 THEN <<>>
    ELSE LET k == TakeOverlap(content, 0, 0, overlap)
             taken == SubSeq(content, Len(content) - k + 1, Len(content))
         IN [i \in 1..k |-> IF i = 1 THEN taken[i]
                            ELSE [taken[i] EXCEPT !.len = @ + 1]]

\* ---- lines 133-138 (220-225): push_str("\n\n") when the running chunk is
\* not empty, then push_str(paragraph).  The first line feed ends the
\* sentence before it, the second is a sentence of its own.
PushParagraph(current_chunk, paragraph) ==
    IF current_chunk = <<>> THEN <<paragraph>>
    ELSE [i \in 1..(Len(current_chunk) + 2) |->
            IF i < Len(current_chunk) THEN current_chunk[i]
            ELSE IF i = Len(current_chunk)
                    THEN [current_chunk[i] EXCEPT !.len = @ + 1]
            ELSE IF i = Len(current_chunk) + 1
                    THEN [len |-> 1, tokens |-> 0, par |-> 0]
            ELSE paragraph]

\* the locals of the packing loop, at the offset it starts from
NewPack(offset) ==
    [chunks |-> <<>>, current_chunk |-> <<>>, current_tokens |-> 0,
     start_offset |-> offset, current_offset |-> offset, panic |-> FALSE]

\* ---- lines 116-139 (and 187-226 in a batch): one paragraph of the loop
PackParagraph(st, paragraph, config) ==
    LET paragraph_tokens == paragraph.tokens
        overlap_content == GetOverlapContent(st.current_chunk, config.overlap)
        overflow == ByteLen(overlap_content) > st.current_offset
        flushed ==
            IF st.current_tokens + paragraph_tokens > config.chunk_size
                    /\ st.current_chunk # <<>>
              THEN [st EXCEPT
                        !.chunks = Append(@, CreateChunk(Trimmed(st.current_chunk),
                                        st.start_offset, st.current_offset,
                                        st.current_tokens)),
                        !.current_chunk = overlap_content,
                        !.current_tokens = CountTokens(overlap_content),
                        !.start_offset =
                            IF overflow
                              THEN st.current_offset - ByteLen(overlap_content)
                                        + UsizeModulus
                              ELSE st.current_offset - ByteLen(overlap_content),
                        !.panic = overflow /\ config.overflow_checks]
              ELSE st
    IN [flushed EXCEPT
            !.current_chunk = PushParagraph(@, paragraph),
            !.current_offset = @ + (IF flushed.current_chunk # <<>> THEN 2 ELSE 0)
                                 + paragraph.len,
            !.current_tokens = @ + paragraph_tokens]

RECURSIVE PackParagraphs(_, _, _)
\* ---- the loop `for paragraph in paragraphs`, then the final chunk
PackParagraphs(st, paragraphs, config) ==
    IF st.panic THEN st
    ELSE IF paragraphs = <<>>
      THEN IF Trimmed(st.current_chunk) # <<>>
             THEN [st EXCEPT !.chunks = Append(@,
                        CreateChunk(Trimmed(st.current_chunk), st.start_offset,
                                    st.current_offset, st.current_tokens))]
             ELSE st
    ELSE PackParagraphs(PackParagraph(st, Head(paragraphs), config),
                        Tail(paragraphs), config)

\* ---- SmartChunker::chunk_paragraphs_sequential
ChunkParagraphsSequential(paragraphs, config) ==
    LET st == PackParagraphs(NewPack(0), paragraphs, config)
    IN [panic |-> st.panic, chunks |-> IF st.panic THEN <<>> ELSE st.chunks]

RECURSIVE MergeBatches(_, _, _)
\* ---- chunk_paragraphs_parallel, lines 240-278: the batch results are
\* stitched from left to right
MergeBatches(all_chunks, batch_results, config) ==
    IF batch_results = <<>> THEN all_chunks
    ELSE LET batch_chunks == Head(batch_results)
             last_chunk == all_chunks[Len(all_chunks)]
             first_chunk == batch_chunks[1]
             merged_content == last_chunk.content \o first_chunk.content
         IN MergeBatches(
                IF all_chunks # <<>> /\ batch_chunks # <<>>
                        /\ last_chunk.token_count + first_chunk.token_count
                                <= config.max_chunk_size
                  THEN SubSeq(all_chunks, 1, Len(all_chunks) - 1)
                        \o <<CreateChunk(merged_content, last_chunk.start_offset,
                                first_chunk.end_offset, CountTokens(merged_content))>>
                        \o Tail(batch_chunks)
                  ELSE all_chunks \o batch_chunks,
                Tail(batch_results), config)

\* ---- SmartChunker::chunk_paragraphs_parallel
ChunkParagraphsParallel(paragraphs, config) ==
    LET batches == (Len(paragraphs) + BatchSize - 1) \div BatchSize
        batch(batch_idx) ==
            SubSeq(paragraphs, batch_idx * BatchSize + 1,
                   IF (batch_idx + 1) * BatchSize < Len(paragraphs)
                     THEN (batch_idx + 1) * BatchSize ELSE Len(paragraphs))
        packed == [b \in 1..batches |->
                    PackParagraphs(NewPack((b - 1) * BatchSize * BatchOffsetUnit),
                                   batch(b - 1), config)]
        panic == \E b \in 1..batches : packed[b].panic
    IN [panic |-> panic,
        chunks |-> IF panic THEN <<>>
                   ELSE MergeBatches(packed[1].chunks,
                            [b \in 1..(batches - 1) |-> packed[b + 1].chunks],
                            config)]

\* ---- SmartChunker::chunk_document
ChunkDocument(paragraphs, config) ==
    IF paragraphs = <<>> THEN [panic |-> FALSE, chunks |-> <<>>]
    ELSE IF config.chunk_size > ParallelChunkSize
                /\ Len(paragraphs) > ParallelParagraphs
      THEN ChunkParagraphsParallel(paragraphs, config)
    ELSE ChunkParagraphsSequential(paragraphs, config)

RECURSIVE PackSentences(_, _, _, _)
\* ---- create_sub_chunks, lines 374-415: the loop over the sentences of a
\* chunk, then the final sub-chunk
PackSentences(sub_chunks, current_content, current_tokens, sentences) ==
    IF sentences = <<>>
      THEN IF current_content # <<>>
             THEN Append(sub_chunks, [content |-> current_content,
                                      token_count |-> current_tokens])
             ELSE sub_chunks
    ELSE LET sentence == Head(sentences)
         IN IF current_tokens + sentence.tokens > SubChunkMax
                    /\ current_tokens >= SubChunkMin
              THEN PackSentences(
                        Append(sub_chunks, [content |-> current_content,
                                            token_count |-> current_tokens]),
                        <<sentence>>, sentence.tokens, Tail(sentences))
              ELSE PackSentences(sub_chunks, Append(current_content, sentence),
                        current_tokens + sentence.tokens, Tail(sentences))

\* ---- SmartChunker::create_sub_chunks, for one chunk (the offsets of a
\* sub-chunk are left out)
CreateSubChunks(chunk) ==
    IF chunk.token_count <= SubChunkMax
      THEN <<[content |-> chunk.content, token_count |-> chunk.token_count]>>
    ELSE PackSentences(<<>>, <<>>, 0, chunk.content)

\* the paragraphs a document is made of: two words, the eight words of a
\* paragraph of test_chunk_size_limits, sixty words, three hundred words
ParagraphKinds ==
    { [len |-> 2, tokens |-> 1], [len |-> 47, tokens |-> 8],
      [len |-> 300, tokens |-> 60], [len |-> 1500, tokens |-> 300] }

\* the configurations, each accepted by RagConfig::validate (config.rs
\* 288-304): those of test_chunk_size_limits with and without overlap, the
\* default one, and one that takes the parallel path
ChunkingConfigs ==
    { [chunk_size |-> 10, overlap |-> 2, min_chunk_size |-> 5,
       max_chunk_size |-> 15],
      [chunk_size |-> 10, overlap |-> 0, min_chunk_size |-> 5,
       max_chunk_size |-> 15],
      [chunk_size |-> 450, overlap |-> 50, min_chunk_size |-> 100,
       max_chunk_size |-> 600],
      [chunk_size |-> 1100, overlap |-> 50, min_chunk_size |-> 100,
       max_chunk_size |-> 1200] }

\* a document of n paragraphs, of one kind up to paragraph `split` and of
\* another after it
DocumentOf(n, split, a, b) ==
    [i \in 1..n |-> [len |-> IF i <= split THEN a.len ELSE b.len,
                     tokens |-> IF i <= split THEN a.tokens ELSE b.tokens,
                     par |-> i]]

ChunkDocumentCall ==
    /\ fcall.pc = "chunk_document"
    /\ fcall' = [fcall EXCEPT !.pc = "create_sub_chunks",
                    !.ret = ChunkDocument(fcall.paragraphs, fcall.config)]
    /\ UNCHANGED <<engineVars, storeVars, searchVars, retr, retry, ingest, cacheVars>>

\* create_sub_chunks on the chunks returned: the sub-chunks of each
CreateSubChunksCall ==
    /\ fcall.pc = "create_sub_chunks"
    /\ ~fcall.ret.panic
    /\ fcall' = [fcall EXCEPT !.pc = "returned",
                    !.subs = [i \in DOMAIN fcall.ret.chunks |->
                                CreateSubChunks(fcall.ret.chunks[i])]]
    /\ UNCHANGED <<engineVars, storeVars, searchVars, retr, retry, ingest, cacheVars>>

ChunkerInit ==
    /\ EngineIdle
    /\ backend = "sled"
    /\ StoreIdle
    /\ SearchIdle
    /\ retr = None
    /\ retry = None
    /\ ingest = None
    /\ CacheIdle
    /\ \E n \in 0..MaxParagraphs, config \in ChunkingConfigs,
          overflow_checks \in BOOLEAN :
         \E split \in 0..n, a \in ParagraphKinds, b \in ParagraphKinds :
            fcall = [pc |-> "chunk_document",
                     paragraphs |-> DocumentOf(n, split, a, b),
                     config |-> [chunk_size |-> config.chunk_size,
                                 overlap |-> config.overlap,
                                 min_chunk_size |-> config.min_chunk_size,
                                 max_chunk_size |-> config.max_chunk_size,
                                 overflow_checks |-> overflow_checks],
                     ret |-> [panic |-> FALSE, chunks |-> <<>>],
                     subs |-> <<>>]

ChunkerNext ==
    \/ ChunkDocumentCall
    \/ CreateSubChunksCall

SpecChunker == ChunkerInit /\ [][ChunkerNext]_vars

\* chunk_document has returned its chunks
Chunked == fcall.pc \in {"create_sub_chunks", "returned"} /\ ~fcall.ret.panic

\* C23: each chunk returned by chunk_document has
\* min_chunk_size <= token_count <= max_chunk_size, except that the last
\* chunk of the document, and no other, may be below min_chunk_size.
C23_ChunkSizesWithinLimits ==
    Chunked =>
        LET chunks == fcall.ret.chunks
        IN \A i \in DOMAIN chunks :
            /\ chunks[i].token_count <= fcall.config.max_chunk_size
            /\ i < Len(chunks)
                => chunks[i].token_count >= fcall.config.min_chunk_size

\* C24: in the list returned by chunk_document every chunk has
\* start_offset < end_offset, and the start offsets are non-decreasing from
\* one chunk to the next, on the sequential path and on the parallel one.
C24_OffsetsOrdered ==
    Chunked =>
        LET chunks == fcall.ret.chunks
        IN /\ \A i \in DOMAIN chunks :
                chunks[i].start_offset < chunks[i].end_offset
           /\ \A i \in DOMAIN chunks :
                i < Len(chunks)
                => chunks[i].start_offset <= chunks[i + 1].start_offset

\* the byte position of paragraph i in the document, whose paragraphs are
\* separated by the two bytes of a blank line
SourceStart(paragraphs, i) ==
    SumSeq([k \in 1..(i - 1) |-> paragraphs[k].len + 2])

\* C25: with overlap = 0, the start_offset and end_offset of each chunk are
\* the byte positions of its text in the source document, the two-byte
\* separators between paragraphs counted: the chunk starts where its first
\* paragraph starts and ends where its last paragraph ends.
C25_OffsetsAreSourcePositions ==
    (Chunked /\ fcall.config.overlap = 0) =>
        LET chunks == fcall.ret.chunks
            paragraphs == fcall.paragraphs
        IN \A i \in DOMAIN chunks :
            LET first == chunks[i].content[1].par
                last == chunks[i].content[Len(chunks[i].content)].par
            IN /\ chunks[i].start_offset = SourceStart(paragraphs, first)
               /\ chunks[i].end_offset
                    = SourceStart(paragraphs, last) + paragraphs[last].len

\* C26: every sub-chunk that create_sub_chunks produces from a chunk of
\* more than 250 tokens has 150 <= token_count <= 250; a chunk of at most
\* 250 tokens yields exactly one sub-chunk, with the content and the token
\* count of the chunk.
C26_SubChunkSizes ==
    fcall.pc = "returned" =>
        \A i \in DOMAIN fcall.subs :
            LET chunk == fcall.ret.chunks[i]
                sub_chunks == fcall.subs[i]
            IN IF chunk.token_count > 250
                 THEN \A j \in DOMAIN sub_chunks :
                        /\ sub_chunks[j].token_count >= 150
                        /\ sub_chunks[j].token_count <= 250
                 ELSE sub_chunks = <<[content |-> chunk.content,
                                      token_count |-> chunk.token_count]>>

\* C27: on every input that takes the parallel path (chunk_size > 1000 and
\* more than 10 paragraphs), chunk_document returns the list of chunks
\* (contents, token counts and offsets) that chunk_paragraphs_sequential
\* returns on the same paragraphs.
C27_ParallelEqualsSequential ==
    (/\ Chunked
     /\ fcall.config.chunk_size > 1000
     /\ Len(fcall.paragraphs) > 10)
    => fcall.ret = ChunkParagraphsSequential(fcall.paragraphs, fcall.config)

\* ---------------------------------------------------------------------
\* Ingests alone, the empty text among the texts (engine.rs 77-136 under
\* PyRagEngine::ingest_document).
\* Specification: SpecText.

EmptyText == [bytes |-> 0, paras |-> <<>>]

TextNext ==
    \/ \E t \in Tasks, content \in Contents \cup {EmptyText} : IngestCall(t, content)
    \/ \E t \in Tasks : EngineIngestEmbed(t)
    \/ \E t \in Tasks : EngineIngestStore(t)
    \/ \E t \in Tasks : EngineIngestInsert(t)
    \/ \E t \in Tasks : EngineIngestStats(t)
    \/ \E i \in 1..MaxCalls : Rollback(i)

SpecText == Init /\ [][TextNext]_vars

\* C28: ingesting a document whose text is empty succeeds: an ingest of the
\* empty text that the token limit let through returns Ok with a document
\* id (of a document with an empty chunk list).
C28_EmptyTextIngestSucceeds ==
    \A t \in Tasks :
        ( /\ task[t].op = "ingest"
          /\ task[t].arg = EmptyText
          /\ task[t].pc = "returned"
          /\ task[t].status # "token_limit" )
        => task[t].status = "ok"

\* C28, amended: ingesting a document whose text is empty is rejected: the
\* engine ends the call as InvalidInput in its first step, and that step
\* changes neither the document map, the vector store nor the statistics;
\* no document ever has an empty chunk list.
C28_EmptyTextIngestRejected ==
    /\ [](\A t \in Tasks :
            ( /\ task[t].op = "ingest"
              /\ task[t].arg = [bytes |-> 0, paras |-> <<>>]
              /\ task[t].pc = "returned"
              /\ task[t].status # "token_limit" )
            => task[t].status = "invalid_input")
    /\ [](\A d \in DOMAIN documents : documents[d].chunk_ids # <<>>)
    /\ [][\A t \in Tasks :
            ( /\ task[t].pc = "engine_ingest"
              /\ task[t].arg = [bytes |-> 0, paras |-> <<>>]
              /\ task'[t].pc # "engine_ingest" )
            => /\ task'[t].pc = "returned"
               /\ task'[t].status = "invalid_input"
               /\ UNCHANGED <<documents, db, index, stats>>]_vars

\* an ingest of the empty text has been rejected by an engine that holds a
\* document
C28_Witness ==
    /\ documents # EmptyMap
    /\ \E t \in Tasks :
            /\ task[t].op = "ingest"
            /\ task[t].arg = [bytes |-> 0, paras |-> <<>>]
            /\ task[t].pc = "returned"
            /\ task[t].status = "invalid_input"

\* ---------------------------------------------------------------------
\* Specification: Spec.

\* C29: an ingest or a retrieval rejected as InvalidInput (blank content or
\* query) is rejected before any side effect: neither the step that admits
\* such a call nor the step in which the engine rejects it changes the
\* token counter, the document map, the vector store, the cache entries or
\* the statistics.
C29_InvalidInputHasNoEffect ==
    [][\A t \in Tasks :
        ( \/ /\ calls' = calls + 1
             /\ task'[t].id = calls'
             /\ task'[t].pc = "engine_ingest"
             /\ task'[t].arg.paras = <<>>
          \/ /\ calls' = calls + 1
             /\ task'[t].id = calls'
             /\ task'[t].pc = "engine_retrieve"
             /\ task'[t].arg.blank
          \/ /\ task[t].pc \in {"engine_ingest", "engine_retrieve"}
             /\ task'[t].pc = "returned"
             /\ task'[t].status = "invalid_input" )
        => UNCHANGED <<token_count, documents, db, index, cache, stats>>]_vars

\* C30: when every ingest_document, delete_document and clear call has
\* returned, whatever their interleaving, stats.document_count is the
\* number of documents in the metadata map and stats.chunk_count the total
\* number of chunk ids recorded on those documents.
C30_StatsMatchDocuments ==
    (\A t \in Tasks : task[t].pc = "returned")
    => /\ stats.document_count = Cardinality(DOMAIN documents)
       /\ stats.chunk_count
            = SumSet([d \in DOMAIN documents |-> Len(documents[d].chunk_ids)],
                     DOMAIN documents)

\* ---------------------------------------------------------------------
\* Specification: SpecChunker.

\* C40: when a chunk is emitted and the next one is seeded with overlap
\* content, start_offset = current_offset - length(overlap content) never
\* goes below zero: chunk_document neither panics on the subtraction nor
\* returns a chunk whose start_offset is a wrapped value (one in the upper
\* half of the usize range).
C40_NoOffsetUnderflow ==
    (fcall.pc \in {"create_sub_chunks", "returned"} /\ fcall.config.overlap > 0)
    => /\ ~fcall.ret.panic
       /\ \A i \in DOMAIN fcall.ret.chunks :
            2 * fcall.ret.chunks[i].start_offset < UsizeModulus

\* ---------------------------------------------------------------------
\* Specification: Spec.

\* C31: once all running calls have returned, after any interleaving of
\* ingest_document, delete_document and clear, every chunk present in the
\* vector store (in its durable layer or in its shadow) has its parent
\* document in the metadata map, with the chunk's id in the chunk_ids of
\* that document.
C31_StoredChunksHaveTheirDocument ==
    (\A t \in Tasks : task[t].pc = "returned")
    => \A c \in (DOMAIN db) \cup (DOMAIN index) :
            /\ c[1] \in DOMAIN documents
            /\ \E k \in DOMAIN documents[c[1]].chunk_ids :
                    documents[c[1]].chunk_ids[k] = c

(***************************************************************************)
(* SpecWrite: store_chunk and store_chunks of the persistent backend       *)
(* (vector_store.rs 254-324), step by step: the records are serialised and *)
(* written to sled (db.insert, or one apply_batch), and the shadow is      *)
(* updated under its write lock afterwards.                                *)
(*   ingest = [pc, op, chunks, status, n, failed]: the position of the     *)
(*     call in progress, its chunks, what the last call returned, the      *)
(*     calls made and those that returned an error.                        *)
(***************************************************************************)
WriteIdle ==
    [pc |-> "idle", op |-> "none", chunks |-> <<>>, status |-> "none",
     n |-> 0, failed |-> 0]

\* ---- store_chunk, lines 256-262, store_chunks, lines 280-312: up to the
\* durable write
WriteCall(op, chunks) ==
    /\ ingest.pc = "idle"
    /\ ingest.n < MaxCalls
    /\ op = "store_chunk" => Len(chunks) = 1
    /\ \/ /\ op = "store_chunks" /\ chunks = <<>>
          /\ ingest' = [ingest EXCEPT !.op = op, !.chunks = chunks, !.n = @ + 1,
                                      !.status = "ok"]
          /\ UNCHANGED db
       \/ /\ chunks # <<>>
          /\ ingest' = [ingest EXCEPT !.op = op, !.chunks = chunks, !.n = @ + 1,
                                      !.status = "store_error", !.failed = @ + 1]
          /\ UNCHANGED db
       \/ /\ chunks # <<>>
          /\ db' = IF op = "store_chunk" THEN StoreChunkDb(db, chunks[1])
                   ELSE StoreChunksDb(db, chunks)
          /\ ingest' = [ingest EXCEPT !.pc = "index", !.op = op, !.chunks = chunks,
                                      !.n = @ + 1, !.status = "none"]
    /\ UNCHANGED <<engineVars, backend, index, iter_order, store_ret, searchVars,
                   fcall, retr, retry, cacheVars>>

\* ---- store_chunk, lines 265-274, store_chunks, lines 315-323: the shadow
WriteIndex ==
    /\ ingest.pc = "index"
    /\ index' = IF ingest.op = "store_chunk"
                  THEN IndexAfterStore(index, ingest.chunks[1])
                  ELSE StoreChunksIndex(index, ingest.chunks)
    /\ iter_order' \in Orders(DOMAIN index')
    /\ ingest' = [ingest EXCEPT !.pc = "idle", !.status = "ok"]
    /\ UNCHANGED <<engineVars, backend, db, store_ret, searchVars, fcall, retr,
                   retry, cacheVars>>

WriteInit ==
    /\ EngineIdle
    /\ backend = "sled"
    /\ StoreIdle
    /\ SearchIdle
    /\ retr = None
    /\ retry = None
    /\ fcall = None
    /\ ingest = WriteIdle
    /\ CacheIdle

WriteNext ==
    \/ \E op \in {"store_chunk", "store_chunks"},
          chunks \in SeqsUpTo(IngestInputs, MaxBatch) : WriteCall(op, chunks)
    \/ WriteIndex

SpecWrite == WriteInit /\ [][WriteNext]_vars

\* C32: on the persistent backend store_chunk and store_chunks write to the
\* durable store first and modify the shadow only after that write has
\* succeeded: no step changes both layers, the shadow changes only when
\* every chunk of the call is in the durable store as passed, and a call
\* that returns Ok leaves every chunk in the durable store and every
\* chunk that has an embedding in the shadow.  When serialization or the
\* durable write fails, the call returns an error and both layers are as
\* they were.
C32_DurableWriteBeforeShadow ==
    /\ [][db' # db => index' = index]_vars
    /\ [][index' # index =>
            \A k \in DOMAIN ingest.chunks :
                /\ ingest.chunks[k].id \in DOMAIN db
                /\ \E j \in DOMAIN ingest.chunks :
                        db[ingest.chunks[k].id] = ingest.chunks[j]]_vars
    /\ [][(ingest'.n = ingest.n + 1 /\ ingest'.status = "store_error")
            => UNCHANGED <<db, index>>]_vars
    /\ [][(ingest'.status = "ok" /\ ingest'.pc = "idle" /\ ingest' # ingest)
            => \A k \in DOMAIN ingest'.chunks :
                /\ ingest'.chunks[k].id \in DOMAIN db'
                /\ ingest'.chunks[k].embedding # NoEmbedding
                    => ingest'.chunks[k].id \in DOMAIN index']_vars

\* after a call that failed, a store_chunks call has written its batch, one
\* chunk of which has an embedding, and has not touched the shadow yet
C32_Witness ==
    /\ ingest.pc = "index"
    /\ ingest.op = "store_chunks"
    /\ ingest.failed > 0
    /\ \E k \in DOMAIN ingest.chunks :
            /\ ingest.chunks[k].embedding # NoEmbedding
            /\ ingest.chunks[k].id \in DOMAIN db
            /\ ingest.chunks[k].id \notin DOMAIN index

\* C33 (Specification: SpecCache): for each enabled cache layer, hits +
\* misses equals the number of get calls on that layer since creation or the
\* last clear: the sum is 0 at creation and after a clear, every get on the
\* enabled layer adds exactly one to it and no other call changes it.  A get
\* that finds an entry older than its ttl removes the entry, returns None
\* and counts as exactly one miss and no hit.
C33_HitsPlusMissesCountGets ==
    /\ \A l \in CacheLayers :
            cache_hist.n = 0 => cache_stats.hits[l] + cache_stats.misses[l] = 0
    /\ [][\A l \in CacheLayers :
            LET before == cache_stats.hits[l] + cache_stats.misses[l]
                after == cache_stats'.hits[l] + cache_stats'.misses[l]
                enabled == /\ cache_cfg.enabled
                           /\ \/ l = "embeddings" /\ cache_cfg.cache_embeddings
                              \/ l = "reranking" /\ cache_cfg.cache_reranking
                              \/ l = "retrieval" /\ cache_cfg.cache_retrieval
            IN IF cache_hist'.n = cache_hist.n
                    THEN after = before
               ELSE IF cache_ret'.op = "clear"
                    THEN after = 0
               ELSE IF cache_ret'.op = "get" /\ l = cache_hist.layer /\ enabled
                    THEN after = before + 1
               ELSE after = before]_vars
    /\ [][LET l == cache_hist.layer
              key == cache_ret'.key
          IN ( /\ cache_hist'.n = cache_hist.n + 1
               /\ cache_ret'.op = "get"
               /\ \E i \in DOMAIN cache[l] :
                    /\ cache[l][i].key = key
                    /\ now - cache[l][i].created_at > cache_cfg.ttl )
             => /\ \A i \in DOMAIN cache'[l] : cache'[l][i].key # key
                /\ cache_ret'.value = <<>>
                /\ cache_stats'.misses[l] = cache_stats.misses[l] + 1
                /\ cache_stats'.hits = cache_stats.hits]_vars

\* put, get, wait past ttl, get: the second get returned None, the entry is
\* gone and the layer counts one hit and one miss
C33_Witness ==
    /\ cache_ret.op = "get"
    /\ cache_ret.put # <<>>
    /\ cache_ret.at - cache_ret.put[1].at > cache_cfg.ttl
    /\ cache_ret.value = <<>>
    /\ cache_stats.hits[cache_hist.layer] = 1
    /\ cache_stats.misses[cache_hist.layer] = 1
    /\ cache[cache_hist.layer] = <<>>

\* C34 (Specification: SpecCache): every cache insert that displaces an
\* existing entry, whether an entry with the same key or the least recently
\* used entry pushed out of a layer that is at max_size, increases
\* stats.evictions by exactly one; an insert that displaces nothing leaves
\* stats.evictions unchanged.  (An insert displaces an entry exactly when
\* the layer holds as many entries after it as before.)
C34_EvictionsCountDisplacements ==
    [][LET l == cache_hist.layer
       IN ( /\ cache_hist'.n = cache_hist.n + 1
            /\ cache_ret'.op = "put"
            /\ cache'[l] # cache[l] )
          => cache_stats'.evictions =
                IF Len(cache'[l]) = Len(cache[l])
                    THEN cache_stats.evictions + 1
                    ELSE cache_stats.evictions]_vars

\* C35 (Specification: SpecRetrieve): on a cache miss, each candidate parent
\* chunk appears at most once in the retrieve_context result; its
\* rerank_score is the score of the first of its sub-chunks in the reranked
\* (descending) list, that is the highest score among its sub-chunks that
\* passed the reranker, whatever its later sub-chunks scored; and a parent
\* is returned only if its final_score is at least reranking.threshold.
C35_ParentOnceWithFirstSubChunkScore ==
    \A t \in Tasks :
        LET c == retr.call[t]
        IN (c.pc = "returned" /\ c.status = "ok" /\ ~c.hit) =>
            /\ \A i, j \in DOMAIN c.result :
                    c.result[i].chunk.id = c.result[j].chunk.id => i = j
            /\ \A i \in DOMAIN c.result :
                    LET r == c.result[i]
                        passed == {k \in DOMAIN r.chunk.subs :
                                        r.chunk.subs[k] >= RerankThreshold}
                    IN /\ r.rerank_score # <<>>
                       /\ \E k \in passed : r.rerank_score[1] = r.chunk.subs[k]
                       /\ \A k \in passed : r.chunk.subs[k] <= r.rerank_score[1]
                       /\ r.final_score >= RerankThreshold

\* a call that missed the cache has returned several parents, among them
\* the chunk whose second sub-chunk scored higher than its first
C35_Witness ==
    \E t \in Tasks :
        LET c == retr.call[t]
        IN /\ c.pc = "returned"
           /\ c.status = "ok"
           /\ ~c.hit
           /\ Len(c.result) >= 2
           /\ \E i \in DOMAIN c.result :
                /\ Len(c.result[i].chunk.subs) = 2
                /\ c.result[i].chunk.subs[1] < c.result[i].chunk.subs[2]
                /\ c.result[i].rerank_score = <<c.result[i].chunk.subs[2]>>

(***************************************************************************)
(* SpecForget: retrieve_context with its retrieval cache, while documents  *)
(* of the corpus are deleted.  A delete_document call is one step here:    *)
(* the state after it is the state in which the call has returned Ok.      *)
(* retr.gone holds the documents deleted; call.seen holds the contents the *)
(* store had from the start of the call on, so a call none of whose seen   *)
(* contents holds a deleted document started after the deletion returned.  *)
(***************************************************************************)
ForgetNext ==
    \/ RetrNext
    \/ \E b \in RetrBatches : RetrDelete(b)

SpecForget == RetrInit /\ [][ForgetNext]_vars

\* C37 (Specification: SpecForget): after delete_document(id) has returned
\* successfully, no later retrieve_context call returns a result whose
\* chunk belongs to document id, including for a query that was retrieved
\* and cached before the deletion and is repeated within the cache ttl.
C37_DeletedDocumentNeverReturned ==
    \A t \in Tasks, b \in retr.gone :
        LET c == retr.call[t]
        IN ( /\ c.pc = "returned"
             /\ c.status = "ok"
             /\ \A bs \in c.seen : b \notin bs )
            => \A i \in DOMAIN c.result : c.result[i].chunk.document_id # b

\* C38 (Specification: Spec): the compensation of a failed ingest never
\* removes budget that belongs to another operation: if reset_token_count
\* or clear and then further successful ingests or retrievals run between
\* the failure and its rollback, the counter after the rollback is still at
\* least the sum of the tokens those later successful operations added.
C38_RollbackLeavesLaterBudget ==
    [][\A i \in 1..MaxCalls :
        ( /\ i \in DOMAIN rollbacks
          /\ i \notin DOMAIN rollbacks'
          /\ rollbacks[i].reset_at > 0 )
        => token_count' >= rollbacks[i].later]_vars

(***************************************************************************)
(* SpecErase: the writes of SpecWrite together with delete_chunk and       *)
(* delete_chunks of the persistent backend (vector_store.rs 460-511), step *)
(* by step: the keys are removed from sled (db.remove, or one              *)
(* apply_batch), and the shadow is updated under its write lock            *)
(* afterwards.  For a delete, ingest.chunks holds the ids passed.          *)
(***************************************************************************)
\* ---- delete_chunk, lines 461-465, delete_chunks, lines 483-496: up to the
\* durable removal
EraseCall(op, ids) ==
    /\ ingest.pc = "idle"
    /\ ingest.n < MaxCalls
    /\ op = "delete_chunk" => Len(ids) = 1
    /\ LET passed == [k \in DOMAIN ids |-> [id |-> ids[k]]]
       IN \/ /\ op = "delete_chunks" /\ ids = <<>>
             /\ ingest' = [ingest EXCEPT !.op = op, !.chunks = passed, !.n = @ + 1,
                                         !.status = "ok"]
             /\ UNCHANGED db
          \/ /\ ids # <<>>
             /\ ingest' = [ingest EXCEPT !.op = op, !.chunks = passed, !.n = @ + 1,
                                         !.status = "store_error", !.failed = @ + 1]
             /\ UNCHANGED db
          \/ /\ ids # <<>>
             /\ db' = DeleteFrom(db, Range(ids))
             /\ ingest' = [ingest EXCEPT !.pc = "unindex", !.op = op, !.chunks = passed,
                                         !.n = @ + 1, !.status = "none"]
    /\ UNCHANGED <<engineVars, backend, index, iter_order, store_ret, searchVars,
                   fcall, retr, retry, cacheVars>>

\* ---- delete_chunk, lines 468-470, delete_chunks, lines 499-503: the shadow
EraseIndex ==
    /\ ingest.pc = "unindex"
    /\ index' = DeleteFrom(index, {ingest.chunks[k].id : k \in DOMAIN ingest.chunks})
    /\ iter_order' \in Orders(DOMAIN index')
    /\ ingest' = [ingest EXCEPT !.pc = "idle", !.status = "ok"]
    /\ UNCHANGED <<engineVars, backend, db, store_ret, searchVars, fcall, retr,
                   retry, cacheVars>>

EraseNext ==
    \/ WriteNext
    \/ \E op \in {"delete_chunk", "delete_chunks"},
          ids \in SeqsUpTo(StoreIds, MaxBatch) : EraseCall(op, ids)
    \/ EraseIndex

SpecErase == WriteInit /\ [][EraseNext]_vars

\* C39 (Specification: SpecErase): in every reachable state, including
\* while a store or delete call is in progress, every chunk id present in
\* the shadow index is also present in the durable chunk store, so every id
\* returned by search_similar can be fetched with get_chunk at that moment.
C39_ShadowWithinDurableStore == \A c \in DOMAIN index : c \in DOMAIN db

(***************************************************************************)
(* SpecLocks: the tokio RwLocks of one vector store (index and stats, and  *)
(* chunks of the in-memory backend) under two concurrent callers.  A call  *)
(* is the sequence of its lock steps: <<"read", l>> and <<"write", l>>     *)
(* await the guard of l, <<"drop", l>> is the end of the guard's scope (or *)
(* an explicit drop); the guards still held are dropped when the call      *)
(* returns.  Which steps a call takes depends on its data (task.arg).      *)
(* task[t].done is the number of steps the call has taken.  The locks of   *)
(* the RagCache are left out: no call of the cache takes a lock of the     *)
(* store.  A read is granted here whenever no writer holds the lock;       *)
(* tokio also makes it wait behind a queued writer, which only blocks      *)
(* more.                                                                   *)
(***************************************************************************)
LockOps ==
    {"store_chunk", "store_chunks", "delete_chunk", "delete_chunks",
     "search_similar", "search_similar_advanced", "get_stats", "clear"}

\* the data a call's path depends on
LockCases(op) ==
    CASE op = "store_chunk" -> {"embedding", "no_embedding"}
      [] op \in {"store_chunks", "delete_chunks"} -> {"some", "empty"}
      [] op = "search_similar" -> {"found", "empty_index"}
      [] op = "search_similar_advanced" -> {"cache_hit", "empty_index", "found", "none_found"}
      [] OTHER -> {"any"}

\* ---- update_search_stats, lines 234-250 / 615-631
UpdateSearchStats == <<<<"write", "stats">>>>

\* ---- impl VectorStore for SledVectorStore, lines 254-557
SledLockSteps(op, case) ==
    CASE op = "store_chunk" ->
            IF case = "embedding" THEN <<<<"write", "index">>, <<"drop", "index">>>>
            ELSE <<>>
      [] op = "store_chunks" ->
            IF case = "some" THEN <<<<"write", "index">>>> ELSE <<>>
      [] op \in {"delete_chunk", "clear"} ->
            <<<<"write", "index">>, <<"write", "stats">>>>
      [] op = "delete_chunks" ->
            IF case = "some" THEN <<<<"write", "index">>, <<"write", "stats">>>> ELSE <<>>
      [] op \in {"search_similar", "search_similar_advanced"} ->
            IF case = "cache_hit" THEN <<>>
            ELSE IF case = "empty_index" THEN <<<<"read", "index">>>>
            ELSE <<<<"read", "index">>, <<"drop", "index">>>> \o UpdateSearchStats
      [] op = "get_stats" ->
            <<<<"read", "stats">>, <<"read", "index">>>>

\* ---- impl VectorStore for FaissVectorStore, lines 635-897
FaissLockSteps(op, case) ==
    CASE op = "store_chunk" ->
            <<<<"write", "chunks">>>>
                \o (IF case = "embedding"
                      THEN <<<<"write", "index">>, <<"drop", "index">>>> ELSE <<>>)
                \o <<<<"write", "stats">>, <<"read", "index">>>>
      [] op \in {"delete_chunk", "clear"} ->
            <<<<"write", "chunks">>, <<"write", "index">>, <<"write", "stats">>>>
      [] op \in {"store_chunks", "delete_chunks"} ->
            IF case = "some"
                THEN <<<<"write", "chunks">>, <<"write", "index">>, <<"write", "stats">>>>
                ELSE <<>>
      [] op = "search_similar" ->
            IF case = "empty_index" THEN <<<<"read", "index">>>>
            ELSE <<<<"read", "index">>, <<"drop", "index">>>> \o UpdateSearchStats
      [] op = "search_similar_advanced" ->
            IF case = "cache_hit" THEN <<>>
            ELSE IF case = "empty_index" THEN <<<<"read", "index">>>>
            ELSE <<<<"read", "index">>>>
                    \o (IF case = "found"
                          THEN <<<<"read", "chunks">>, <<"drop", "chunks">>>> ELSE <<>>)
                    \o <<<<"drop", "index">>>> \o UpdateSearchStats
      [] op = "get_stats" ->
            <<<<"read", "stats">>, <<"read", "index">>,
              <<"read", "chunks">>, <<"drop", "chunks">>>>

LockSteps(t) ==
    IF backend = "sled" THEN SledLockSteps(task[t].op, task[t].arg)
    ELSE FaissLockSteps(task[t].op, task[t].arg)

\* the guards caller t holds: the modes in which it holds lock l
Holds(t, l) ==
    IF task[t].pc # "locks" THEN {}
    ELSE LET steps == LockSteps(t)
             taken == {k \in 1..task[t].done : steps[k][2] = l}
         IN {steps[k][1] : k \in {j \in taken :
                /\ steps[j][1] # "drop"
                /\ \A d \in taken : d > j => steps[d][1] # "drop"}}

\* RwLock: a read guard is granted while no other caller holds the write
\* guard, a write guard while no other caller holds any guard
Granted(t, step) ==
    CASE step[1] = "drop" -> TRUE
      [] step[1] = "read" -> \A u \in Tasks \ {t} : "write" \notin Holds(u, step[2])
      [] step[1] = "write" -> \A u \in Tasks \ {t} : Holds(u, step[2]) = {}

\* a call starts
LockCall(t, op, case) ==
    /\ CanStart(t)
    /\ calls' = calls + 1
    /\ task' = [task EXCEPT ![t] =
            [IdleTask EXCEPT !.op = op, !.pc = "locks", !.id = calls + 1, !.arg = case]]
    /\ UNCHANGED <<token_count, rollbacks, documents, stats, storeVars, searchVars,
                   clientVars, cacheVars>>

\* the next step of a call can be taken
CanProceed(t) ==
    /\ task[t].pc = "locks"
    /\ task[t].done < Len(LockSteps(t)) => Granted(t, LockSteps(t)[task[t].done + 1])

\* a call takes its next lock step
LockStep(t) ==
    /\ task[t].pc = "locks"
    /\ task[t].done < Len(LockSteps(t))
    /\ Granted(t, LockSteps(t)[task[t].done + 1])
    /\ task' = [task EXCEPT ![t].done = @ + 1]
    /\ UNCHANGED <<token_count, rollbacks, calls, documents, stats, storeVars,
                   searchVars, clientVars, cacheVars>>

\* a call returns: its guards are dropped
LockReturn(t) ==
    /\ task[t].pc = "locks"
    /\ task[t].done = Len(LockSteps(t))
    /\ task' = [task EXCEPT ![t] = Returned(t, "ok")]
    /\ UNCHANGED <<token_count, rollbacks, calls, documents, stats, storeVars,
                   searchVars, clientVars, cacheVars>>

LockInit ==
    /\ EngineIdle
    /\ backend \in {"sled", "faiss"}
    /\ StoreIdle
    /\ SearchIdle
    /\ ClientIdle
    /\ CacheIdle

LockNext ==
    \/ \E t \in Tasks, op \in LockOps : \E case \in LockCases(op) : LockCall(t, op, case)
    \/ \E t \in Tasks : LockStep(t)
    \/ \E t \in Tasks : LockReturn(t)

SpecLocks == LockInit /\ [][LockNext]_vars

\* C36 (Specification: SpecLocks): no interleaving of concurrent
\* vector-store calls (store_chunk, store_chunks, delete_chunk,
\* delete_chunks, search_similar, search_similar_advanced, get_stats,
\* clear) on one store deadlocks: whenever calls are in progress, one of
\* them can take its next step or return, so that with locks granted
\* fairly every call eventually returns and drops its guards.
C36_NoDeadlock ==
    (\E t \in Tasks : task[t].pc = "locks") => \E t \in Tasks : CanProceed(t)

====
